---- MODULE Spec2Model ----
(***************************************************************************)
(* Ledger and inventory reconciliation of the billing backend: the         *)
(* purchase routes (src/routes/party.js, second half), the payment routes  *)
(* (src/unnamed/part_003) and the Payment model (src/models/Payment.js).   *)
(*                                                                         *)
(* Numbers.  The code keeps openingStock in bags as a JavaScript number    *)
(* and converts kilograms with "quantity / 30".  The model keeps stock as  *)
(* an exact fixed-point number: an integer count of 1/UnitsPerBag bags.    *)
(* Every integer kilogram quantity is then represented exactly; rounding   *)
(* of IEEE doubles is outside the model.                                   *)
(***************************************************************************)
EXTENDS Integers, Sequences, FiniteSets, TLC

VARIABLES
    parties,    \* Party collection:    _id -> [name, phoneNumber, balance]
    items,      \* Item collection:     _id -> [productName, isUniversal, openingStock]
    purchases,  \* Purchase collection: _id -> [partyId, items, totalAmount, status]
    payments,   \* Payment collection:  _id -> [paymentNo, type, amount, totalAmount, status, partyId]
    last,       \* history: the last completed request, with the store before it
    trip,       \* history: progress of a tracked multi-request scenario
    issued,     \* history: payment numbers handed out so far, per type
    reqs        \* requests in flight (step-wise specification only)

vars == <<parties, items, purchases, payments, last, trip, issued, reqs>>
store == <<parties, items, purchases, payments>>

----------------------------------------------------------------------------
(* Bounds of the model *)

MaxPurchases == 2
MaxPayments == 2
MaxDebt == 4
MaxNumber == 2
MaxNumbered == 11
MaxRequests == 2
MaxParties == 3

(* Program constants *)

KgPerBag == 30
InitialStock == 0

(* Fixed-point resolution of the model's stock values: units per bag. *)
UnitsPerBag == KgPerBag

Names == {"A", "B"}
\* Phone numbers are strings, kept as their characters
Phone == <<"+", "9", "1", "1">>
Phones == {Phone}
Statuses == {"pending", "completed", "cancelled"}
PaymentTypes == {"payment-in", "payment-out"}
OrdinaryItemIds == {"I1", "I2"}
BardanaId == "B0"
UnknownItemId == "IX"
Amounts == {1, 2}

NoParty == 0
Undefined == "undefined"
NoAmount == -1

L(i, q) == [id |-> i, quantity |-> q, price |-> 2]

\* Request bodies' line-item lists: one line, a fractional number of bags, two
\* items, the same item twice, an id that resolves to no item.
ItemLists ==
    { <<L("I1", 30)>>, <<L("I1", 45)>>, <<L("I2", 30), L("I1", 30)>>,
      <<L("I1", 30), L("I1", 45)>>, <<L("IX", 30), L("I2", 45)>>,
      <<L("I2", 45), L("I1", 45)>> }

\* Two lists of different totals, for the specification of the ledger
LedgerLists == { <<L("I1", 30)>>, <<L("I1", 45)>> }

\* The lists of the requests in flight
ConcLists == { <<L("I1", 45)>>, <<L("I2", 30), L("I1", 30)>> }

----------------------------------------------------------------------------
(* Helpers *)

Max(a, b) == IF a >= b THEN a ELSE b

\* A fresh document id: the least positive integer not in use.
NewId(used) == CHOOSE n \in 1..(Cardinality(used) + 1) : n \notin used

Remove(f, k) == [x \in (DOMAIN f) \ {k} |-> f[x]]

RECURSIVE SumQuantity(_)
\* items.reduce((sum, item) => sum + item.quantity, 0)
SumQuantity(its) ==
    IF its = <<>> THEN 0 ELSE Head(its).quantity + SumQuantity(Tail(its))

RECURSIVE TotalAmount(_)
\* Purchase pre-save: totalAmount is the sum of the line totals.
TotalAmount(its) ==
    IF its = <<>> THEN 0
    ELSE Head(its).quantity * Head(its).price + TotalAmount(Tail(its))

\* quantity / 30, as a count of 1/UnitsPerBag bags
QuantityInBagsWhole(kg) == (kg \div KgPerBag) * UnitsPerBag

\* const quantityInBags = purchaseItem.quantity / 30
QuantityInBags(kg) == (kg * UnitsPerBag) \div KgPerBag

----------------------------------------------------------------------------
(* Party model *)

\* Party.findOne({name, phoneNumber})
FindParty(ps, name, phone) ==
    {p \in DOMAIN ps : ps[p].name = name /\ ps[p].phoneNumber = phone}

IsPhoneChar(c) == c \in {"+", "0", "1", "2", "3", "4", "5", "6", "7", "8", "9"}

\* phoneNumber.replace(/[^\d+]/g, ''); '+91' prefixed unless it starts with '+'
NormalizePhone(phone) ==
    LET kept == SelectSeq(phone, IsPhoneChar)
    IN IF kept # <<>> /\ Head(kept) = "+" THEN kept ELSE <<"+", "9", "1">> \o kept

FindOrCreateStoreAlways(ps, name, phone) ==
    ps @@ (NewId(DOMAIN ps) :>
             [name |-> name, phoneNumber |-> NormalizePhone(phone), balance |-> 0])

\* Party.findOrCreate: the collection after the call
FindOrCreateStore(ps, name, phone) ==
    IF FindParty(ps, name, NormalizePhone(phone)) # {} THEN ps
    ELSE ps @@ (NewId(DOMAIN ps) :>
                  [name |-> name, phoneNumber |-> NormalizePhone(phone), balance |-> 0])

\* Party.findOrCreate: the _id of the party returned
FindOrCreateId(ps, name, phone) ==
    IF FindParty(ps, name, NormalizePhone(phone)) # {}
    THEN CHOOSE p \in FindParty(ps, name, NormalizePhone(phone)) : TRUE
    ELSE NewId(DOMAIN ps)

\* Party.updateBalance(partyId, amount, operation); throws 'Party not found'
UpdateBalanceOk(ps, partyId) == partyId \in DOMAIN ps

NewBalance(bal, amount, operation) ==
    CASE operation = "add" -> bal + amount
      [] operation = "subtract" -> bal - amount
      [] operation = "set" -> amount

UpdateBalance(ps, partyId, amount, operation) ==
    [ps EXCEPT ![partyId].balance = NewBalance(@, amount, operation)]

----------------------------------------------------------------------------
(* Inventory: one read-modify-write of an Item document *)

\* item.openingStock += quantityInBags
StockIncreased(stock, kg) == stock + QuantityInBags(kg)

StockRestoredUnclamped(stock, kg) == stock - QuantityInBags(kg)

StockRestoredTwice(stock, kg) == Max(0, stock - 2 * QuantityInBags(kg))

\* item.openingStock -= quantityInBags; if (item.openingStock < 0) item.openingStock = 0
StockRestored(stock, kg) == Max(0, stock - QuantityInBags(kg))

StockShiftedByNewTotal(stock, kgDifference) ==
    Max(0, stock + (Max(kgDifference, 0) * UnitsPerBag) \div KgPerBag)

\* bardanaItem.openingStock += bardanaBagsDifference; clamp at 0 (kgDifference may be negative)
StockShifted(stock, kgDifference) ==
    Max(0, stock + (kgDifference * UnitsPerBag) \div KgPerBag)

\* Item.findOne({isUniversal: true, productName: 'Bardana'})
FindBardana(its) ==
    {i \in DOMAIN its : its[i].isUniversal /\ its[i].productName = "Bardana"}

RECURSIVE IncreaseLines(_, _)
\* for (const purchaseItem of items) { item = findById; if (item) { += ; save } }
IncreaseLines(its, lines) ==
    IF lines = <<>> THEN its
    ELSE LET l == Head(lines)
             nxt == IF l.id \in DOMAIN its
                    THEN [its EXCEPT ![l.id].openingStock = StockIncreased(@, l.quantity)]
                    ELSE its
         IN IncreaseLines(nxt, Tail(lines))

RECURSIVE RestoreLines(_, _)
\* for (const originalItem of originalItems) { item = findById; if (item) { -=; clamp; save } }
RestoreLines(its, lines) ==
    IF lines = <<>> THEN its
    ELSE LET l == Head(lines)
             nxt == IF l.id \in DOMAIN its
                    THEN [its EXCEPT ![l.id].openingStock = StockRestored(@, l.quantity)]
                    ELSE its
         IN RestoreLines(nxt, Tail(lines))

\* Bardana on create: += totalKgPurchased / 30
BardanaIncreased(its, lines) ==
    IF FindBardana(its) = {} THEN its
    ELSE LET b == CHOOSE i \in FindBardana(its) : TRUE
         IN [its EXCEPT ![b].openingStock = StockIncreased(@, SumQuantity(lines))]

BardanaKept(its, lines) == its

\* Bardana on delete: -= totalKgPurchased / 30, clamped at 0
BardanaRestored(its, lines) ==
    IF FindBardana(its) = {} THEN its
    ELSE LET b == CHOOSE i \in FindBardana(its) : TRUE
         IN [its EXCEPT ![b].openingStock = StockRestored(@, SumQuantity(lines))]

\* Bardana on update: += (newTotalKg - originalTotalKg) / 30, clamped at 0
BardanaShifted(its, originalLines, lines) ==
    IF FindBardana(its) = {} THEN its
    ELSE LET b == CHOOSE i \in FindBardana(its) : TRUE
         IN [its EXCEPT ![b].openingStock =
                StockShifted(@, SumQuantity(lines) - SumQuantity(originalLines))]

----------------------------------------------------------------------------
(* Purchase routes, each request run to completion.  A handler is an       *)
(* operator from the current store (and the request) to the store it       *)
(* leaves and the HTTP status it answers with.                             *)

Answer(ps, its, pus, pas, code) ==
    [parties |-> ps, items |-> its, purchases |-> pus, payments |-> pas, code |-> code]

\* POST /api/purchases
PurchaseCreate(name, phone, lines, status) ==
    LET ps1 == FindOrCreateStore(parties, name, phone)
        party == FindOrCreateId(parties, name, phone)
        id == NewId(DOMAIN purchases)
        total == TotalAmount(lines)
        saved == purchases @@ (id :> [partyId |-> party, items |-> lines,
                                      totalAmount |-> total, status |-> status])
    IN Answer(UpdateBalance(ps1, party, total, "add"),
              BardanaIncreased(IncreaseLines(items, lines), lines),
              saved, payments, 201)

BalanceDifferenceSwapped(newTotal, originalTotalAmount) == originalTotalAmount - newTotal

\* const balanceDifference = purchase.totalAmount - originalTotalAmount
BalanceDifference(newTotal, originalTotalAmount) == newTotal - originalTotalAmount

\* The stock part of PUT /api/purchases/:id
UpdatedStock(its, given, originalItems, lines) ==
    IF given /\ originalItems # lines
    THEN BardanaShifted(IncreaseLines(RestoreLines(its, originalItems), lines),
                        originalItems, lines)
    ELSE its

\* PUT /api/purchases/:id   (given: the request body carries items)
PurchaseUpdate(id, given, lines, status) ==
    IF id \notin DOMAIN purchases
    THEN Answer(parties, items, purchases, payments, 404)
    ELSE
    LET purchase == purchases[id]
        originalTotalAmount == purchase.totalAmount
        originalItems == purchase.items
        newItems == IF given THEN lines ELSE purchase.items
        newTotal == TotalAmount(newItems)
        saved == [purchases EXCEPT ![id] =
                    [partyId |-> purchase.partyId, items |-> newItems,
                     totalAmount |-> newTotal,
                     status |-> IF status # Undefined THEN status ELSE purchase.status]]
        ledger == purchase.partyId # NoParty /\ originalTotalAmount # newTotal
    IN IF ledger /\ ~UpdateBalanceOk(parties, purchase.partyId)
       THEN Answer(parties, items, saved, payments, 500)
       ELSE Answer(IF ledger
                   THEN UpdateBalance(parties, purchase.partyId,
                            BalanceDifference(newTotal, originalTotalAmount), "add")
                   ELSE parties,
                   UpdatedStock(items, given, originalItems, lines),
                   saved, payments, 200)

\* PATCH /api/purchases/:id/status
PurchaseStatus(id, status) ==
    IF status \notin Statuses
    THEN Answer(parties, items, purchases, payments, 400)
    ELSE IF id \notin DOMAIN purchases
    THEN Answer(parties, items, purchases, payments, 404)
    ELSE Answer(parties, items, [purchases EXCEPT ![id].status = status], payments, 200)

PurchaseDeleteRemovingFirst(id) ==
    IF id \notin DOMAIN purchases
    THEN Answer(parties, items, purchases, payments, 404)
    ELSE
    LET purchase == purchases[id]
        its1 == BardanaRestored(RestoreLines(items, purchase.items), purchase.items)
    IN IF purchase.partyId # NoParty /\ ~UpdateBalanceOk(parties, purchase.partyId)
       THEN Answer(parties, its1, Remove(purchases, id), payments, 500)
       ELSE Answer(IF purchase.partyId # NoParty
                   THEN UpdateBalance(parties, purchase.partyId,
                                      purchase.totalAmount, "subtract")
                   ELSE parties,
                   its1, Remove(purchases, id), payments, 200)

\* DELETE /api/purchases/:id
PurchaseDelete(id) ==
    IF id \notin DOMAIN purchases
    THEN Answer(parties, items, purchases, payments, 404)
    ELSE
    LET purchase == purchases[id]
        its1 == BardanaRestored(RestoreLines(items, purchase.items), purchase.items)
    IN IF purchase.partyId # NoParty /\ ~UpdateBalanceOk(parties, purchase.partyId)
       THEN Answer(parties, its1, purchases, payments, 500)
       ELSE Answer(IF purchase.partyId # NoParty
                   THEN UpdateBalance(parties, purchase.partyId,
                                      purchase.totalAmount, "subtract")
                   ELSE parties,
                   its1, Remove(purchases, id), payments, 200)

----------------------------------------------------------------------------
(* Party routes, each request run to completion *)

\* POST /api/parties/find-or-create
PartyFindOrCreate(name, phone, type) ==
    IF name = "" \/ phone = <<>> \/ type = Undefined
    THEN Answer(parties, items, purchases, payments, 400)
    ELSE Answer(FindOrCreateStore(parties, name, phone), items, purchases, payments, 200)

\* POST /api/parties
PartyCreate(name, phone, type) ==
    IF name = "" \/ phone = <<>> \/ type = Undefined
    THEN Answer(parties, items, purchases, payments, 400)
    ELSE IF FindParty(parties, name, phone) # {}
    THEN Answer(parties, items, purchases, payments, 409)
    ELSE Answer(parties @@ (NewId(DOMAIN parties) :>
                    [name |-> name, phoneNumber |-> NormalizePhone(phone),
                     balance |-> 0]),
                items, purchases, payments, 201)

\* PUT /api/parties/:id   (name = "", phone = <<>>, balance = NoAmount: not in
\* the body)
PartyUpdate(id, name, phone, balance) ==
    IF id \notin DOMAIN parties
    THEN Answer(parties, items, purchases, payments, 404)
    ELSE IF name # "" /\ phone # <<>> /\ FindParty(parties, name, phone) \ {id} # {}
    THEN Answer(parties, items, purchases, payments, 409)
    ELSE Answer([parties EXCEPT
                    ![id].name = IF name # "" THEN name ELSE @,
                    ![id].phoneNumber = IF phone # <<>> THEN NormalizePhone(phone) ELSE @,
                    ![id].balance = IF balance # NoAmount THEN balance ELSE @],
                items, purchases, payments, 200)

\* PATCH /api/parties/:id/balance
PartyBalance(id, amount, operation) ==
    IF amount = NoAmount \/ operation = Undefined
    THEN Answer(parties, items, purchases, payments, 400)
    ELSE IF operation \notin {"add", "subtract", "set"}
    THEN Answer(parties, items, purchases, payments, 400)
    ELSE IF ~UpdateBalanceOk(parties, id)
    THEN Answer(parties, items, purchases, payments, 404)
    ELSE Answer(UpdateBalance(parties, id, amount, operation),
                items, purchases, payments, 200)

\* DELETE /api/parties/:id
PartyDeleteCascading(id) ==
    IF id \notin DOMAIN parties
    THEN Answer(parties, items, purchases, payments, 404)
    ELSE Answer(Remove(parties, id), items,
                SelectSeq(purchases, LAMBDA t : t.partyId # id),
                SelectSeq(payments, LAMBDA t : t.partyId # id), 200)

PartyDelete(id) ==
    IF id \notin DOMAIN parties
    THEN Answer(parties, items, purchases, payments, 404)
    ELSE Answer(Remove(parties, id), items, purchases, payments, 200)

----------------------------------------------------------------------------
(* Payment model *)

RECURSIVE ToDigits(_)
\* `${lastNumber + 1}`: the decimal numeral of a natural number
ToDigits(n) == IF n < 10 THEN <<n>> ELSE Append(ToDigits(n \div 10), n % 10)

RECURSIVE ParseInt(_)
\* parseInt(match[1], 10)
ParseInt(ds) ==
    IF ds = <<>> THEN 0 ELSE 10 * ParseInt(SubSeq(ds, 1, Len(ds) - 1)) + ds[Len(ds)]

RECURSIVE StringLess(_, _)
\* The store's order on strings (sort({paymentNo: -1})): character by character,
\* a proper prefix first.  Both numbers carry the same "PAY-..-" prefix, and the
\* digits' character codes are ordered like the digits.
StringLess(a, b) ==
    IF b = <<>> THEN FALSE
    ELSE IF a = <<>> THEN TRUE
    ELSE IF Head(a) # Head(b) THEN Head(a) < Head(b)
    ELSE StringLess(Tail(a), Tail(b))

PrefixShared(type) == "PAY"

\* const prefix = type === 'payment-in' ? 'PAY-IN' : 'PAY-OUT'
Prefix(type) == IF type = "payment-in" THEN "PAY-IN" ELSE "PAY-OUT"

\* findOne({paymentNo: {$regex: `^${prefix}-`}}).sort({paymentNo: -1})
LastPayment(pas, prefix) ==
    LET same == {i \in DOMAIN pas : pas[i].paymentNo.prefix = prefix}
    IN {i \in same : \A j \in same :
            ~StringLess(pas[i].paymentNo.digits, pas[j].paymentNo.digits)}

GenerateNextPaymentNumberReserving(pas, type) ==
    LET prefix == Prefix(type)
        taken == {ParseInt(pas[i].paymentNo.digits) :
                      i \in {i \in DOMAIN pas : pas[i].paymentNo.prefix = prefix}}
                 \cup {ParseInt(reqs[k].paymentNo.digits) :
                      k \in {k \in DOMAIN reqs : reqs[k].paymentNo.prefix = prefix}}
        lastNumber == IF taken = {} THEN 0
                      ELSE CHOOSE n \in taken : \A m \in taken : m <= n
    IN [prefix |-> prefix, digits |-> ToDigits(lastNumber + 1)]

\* Payment.generateNextPaymentNumber(type)
GenerateNextPaymentNumber(pas, type) ==
    LET prefix == Prefix(type)
        lastPayment == LastPayment(pas, prefix)
    IN IF lastPayment = {}
       THEN [prefix |-> prefix, digits |-> ToDigits(1)]
       ELSE LET lastNumber ==
                    ParseInt(pas[CHOOSE i \in lastPayment : TRUE].paymentNo.digits)
            IN [prefix |-> prefix, digits |-> ToDigits(lastNumber + 1)]

UpdatePartyBalanceCompletedOnly(ps, payment) ==
    IF payment.partyId = NoParty \/ payment.status # "completed" THEN ps
    ELSE UpdateBalance(ps, payment.partyId, payment.amount, "subtract")

\* Payment.updatePartyBalance(payment): the party collection it leaves
\* (operation is 'subtract' for payment-in and for payment-out)
UpdatePartyBalance(ps, payment) ==
    IF payment.partyId = NoParty THEN ps
    ELSE UpdateBalance(ps, payment.partyId, payment.amount,
                       IF payment.type = "payment-in" THEN "subtract" ELSE "subtract")

\* pre('save'): if (!this.totalAmount && this.amount) this.totalAmount = this.amount
PreSaveTotal(totalAmount, amount) ==
    IF totalAmount = 0 /\ amount # 0 THEN amount ELSE totalAmount

----------------------------------------------------------------------------
(* Payment routes, each request run to completion *)

\* POST /api/payments   (totalAmount = 0 stands for an absent totalAmount)
PaymentCreate(type, name, phone, amount, totalAmount, status) ==
    IF amount <= 0
    THEN Answer(parties, items, purchases, payments, 400)
    ELSE
    LET paymentNo == GenerateNextPaymentNumber(payments, type)
        ps1 == FindOrCreateStore(parties, name, phone)
        party == FindOrCreateId(parties, name, phone)
        payment == [paymentNo |-> paymentNo, type |-> type, amount |-> amount,
                    totalAmount |-> PreSaveTotal(
                        IF totalAmount # 0 THEN totalAmount ELSE amount, amount),
                    status |-> status, partyId |-> party]
    IN IF \E i \in DOMAIN payments : payments[i].paymentNo = paymentNo
       THEN \* unique index on paymentNo: save() throws
            Answer(ps1, items, purchases, payments, 500)
       ELSE Answer(UpdatePartyBalance(ps1, payment), items, purchases,
                   payments @@ (NewId(DOMAIN payments) :> payment), 201)

\* PUT /api/payments/:id   (amount = NoAmount, status = Undefined: not in the body)
PaymentUpdate(id, amount, status) ==
    IF id \notin DOMAIN payments
    THEN Answer(parties, items, purchases, payments, 404)
    ELSE
    LET original == payments[id]
        originalAmount == original.amount
        originalPartyId == original.partyId
        newAmount == IF amount # NoAmount THEN amount ELSE original.amount
        payment == [original EXCEPT
                      !.amount = newAmount,
                      !.status = IF status # Undefined THEN status ELSE @,
                      !.totalAmount = PreSaveTotal(@, newAmount)]
        saved == [payments EXCEPT ![id] = payment]
    IN IF originalAmount # payment.amount /\ payment.partyId # NoParty
       THEN IF ~UpdateBalanceOk(parties, originalPartyId)
            THEN Answer(parties, items, purchases, saved, 500)
            ELSE Answer(UpdatePartyBalance(
                            UpdateBalance(parties, originalPartyId, originalAmount,
                                IF payment.type = "payment-in" THEN "add" ELSE "add"),
                            payment),
                        items, purchases, saved, 200)
       ELSE Answer(parties, items, purchases, saved, 200)

PaymentStatusAlwaysReconciling(id, status) ==
    IF status \notin Statuses
    THEN Answer(parties, items, purchases, payments, 400)
    ELSE IF id \notin DOMAIN payments
    THEN Answer(parties, items, purchases, payments, 404)
    ELSE
    LET payment == [payments[id] EXCEPT !.status = status]
        saved == [payments EXCEPT ![id] = payment]
    IN IF payment.partyId # NoParty /\ ~UpdateBalanceOk(parties, payment.partyId)
       THEN Answer(parties, items, purchases, saved, 500)
       ELSE Answer(UpdatePartyBalance(parties, payment), items, purchases, saved, 200)

\* PATCH /api/payments/:id/status
PaymentStatus(id, status) ==
    IF status \notin Statuses
    THEN Answer(parties, items, purchases, payments, 400)
    ELSE IF id \notin DOMAIN payments
    THEN Answer(parties, items, purchases, payments, 404)
    ELSE
    LET originalStatus == payments[id].status
        payment == [payments[id] EXCEPT !.status = status]
        saved == [payments EXCEPT ![id] = payment]
        reconcile == \/ originalStatus = "completed" /\ status = "cancelled"
                     \/ originalStatus = "cancelled" /\ status = "completed"
    IN IF reconcile /\ payment.partyId # NoParty
                    /\ ~UpdateBalanceOk(parties, payment.partyId)
       THEN Answer(parties, items, purchases, saved, 500)
       ELSE Answer(IF reconcile THEN UpdatePartyBalance(parties, payment) ELSE parties,
                   items, purchases, saved, 200)

ReversesLedgerAnyStatus(payment) == payment.partyId # NoParty

\* if (payment.partyId && payment.status === 'completed')
ReversesLedger(payment) == payment.partyId # NoParty /\ payment.status = "completed"

\* DELETE /api/payments/:id
PaymentDelete(id) ==
    IF id \notin DOMAIN payments
    THEN Answer(parties, items, purchases, payments, 404)
    ELSE
    LET payment == payments[id]
        reverse == ReversesLedger(payment)
    IN IF reverse /\ ~UpdateBalanceOk(parties, payment.partyId)
       THEN Answer(parties, items, purchases, payments, 500)
       ELSE Answer(IF reverse
                   THEN UpdateBalance(parties, payment.partyId, payment.amount,
                            IF payment.type = "payment-in" THEN "add" ELSE "add")
                   ELSE parties,
                   items, purchases, Remove(payments, id), 200)

----------------------------------------------------------------------------
(* Specifications *)

\* The store once startup has run on a store with two items: initializeBardana
\* has created the universal item with openingStock: 0.
InitStore ==
    /\ parties = <<>>
    /\ items = [i \in OrdinaryItemIds \cup {BardanaId} |->
                  [productName |-> IF i = BardanaId THEN "Bardana" ELSE i,
                   isUniversal |-> (i = BardanaId), openingStock |-> InitialStock]]
    /\ purchases = <<>>
    /\ payments = <<>>

NoLast == [op |-> "none"]
NoTrip == [stage |-> 0]

Init ==
    /\ InitStore
    /\ last = NoLast
    /\ trip = NoTrip
    /\ issued = [t \in PaymentTypes |-> {}]
    /\ reqs = <<>>

Snapshot ==
    [parties |-> parties, items |-> items, purchases |-> purchases, payments |-> payments]

(* What a specification keeps of the history, and its range of balances:   *)
(* rec, the requests whose outcome `last` records; track, whether `trip`   *)
(* follows scenarios; num, whether `issued` collects the payment numbers;  *)
(* debt, how far below the purchases' total a balance is followed; top,    *)
(* the highest payment number handed out.                                  *)
Keep(rec, track, num, debts, top) ==
    [rec |-> rec, track |-> track, num |-> num, debts |-> debts, top |-> top,
     orphans |-> FALSE]

\* What the purchases on record owe a party
RECURSIVE Owed(_, _)
Owed(pus, p) ==
    IF DOMAIN pus = {} THEN 0
    ELSE LET i == CHOOSE x \in DOMAIN pus : TRUE
         IN (IF pus[i].partyId = p THEN pus[i].totalAmount ELSE 0) + Owed(Remove(pus, i), p)

\* The store after a request, within the specification's balance range: payments
\* are followed until they have taken a balance a debt of h.debts below what is owed
Apply(r, h) ==
    /\ \A debt \in h.debts, p \in DOMAIN r.parties :
          r.parties[p].balance >= Owed(r.purchases, p) - debt
    \* an _id is never given twice: no new party takes the _id that the
    \* records of a deleted party still carry
    /\ \A p \in DOMAIN r.parties \ DOMAIN parties :
          /\ \A i \in DOMAIN purchases : purchases[i].partyId # p
          /\ \A i \in DOMAIN payments : payments[i].partyId # p
    /\ parties' = r.parties
    /\ items' = r.items
    /\ purchases' = r.purchases
    /\ payments' = r.payments

\* `trip` after a request: a Purchase created, then updated with new items, then
\* deleted; a Payment cancelled, then completed again.  Any other request ends
\* the scenario.
TripNext(op, args, r) ==
    CASE op = "purchaseCreate" /\ r.code = 201 ->
            [stage |-> 1, kind |-> "purchase",
             id |-> CHOOSE i \in DOMAIN r.purchases : i \notin DOMAIN purchases,
             pre |-> Snapshot]
      [] op = "purchaseUpdate" /\ r.code = 200 /\ args.given
            /\ trip.stage = 1 /\ trip.kind = "purchase" /\ trip.id = args.id ->
            [trip EXCEPT !.stage = 2]
      [] op = "purchaseDelete" /\ r.code = 200
            /\ trip.stage = 2 /\ trip.kind = "purchase" /\ trip.id = args.id ->
            [trip EXCEPT !.stage = 3]
      [] op = "paymentStatus" /\ r.code = 200 /\ args.status = "cancelled"
            /\ payments[args.id].status = "completed" ->
            [stage |-> 1, kind |-> "toggle", id |-> args.id, pre |-> Snapshot]
      [] op = "paymentStatus" /\ r.code = 200 /\ args.status = "completed"
            /\ payments[args.id].status = "cancelled"
            /\ trip.stage = 1 /\ trip.kind = "toggle" /\ trip.id = args.id ->
            [trip EXCEPT !.stage = 2]
      [] op = "paymentCreate" /\ r.code = 201 ->
            [stage |-> 1, kind |-> "payment", status |-> args.status,
             id |-> CHOOSE i \in DOMAIN r.payments : i \notin DOMAIN payments,
             pre |-> Snapshot]
      [] op = "paymentDelete" /\ r.code = 200
            /\ trip.stage = 1 /\ trip.kind = "payment" /\ trip.id = args.id ->
            [trip EXCEPT !.stage = 2, !.status = payments[args.id].status]
      [] op = "partyFindOrCreate" /\ r.code = 200 ->
            IF trip.stage > 0 /\ trip.kind = "find"
               /\ trip.name = args.name /\ trip.phone = args.phone
            THEN [stage |-> 2, kind |-> "find", name |-> args.name, phone |-> args.phone,
                  id |-> args.id, first |-> trip.id, before |-> trip.pre, pre |-> Snapshot]
            ELSE [stage |-> 1, kind |-> "find", name |-> args.name, phone |-> args.phone,
                  id |-> args.id, first |-> NoParty, before |-> Snapshot, pre |-> Snapshot]
      [] OTHER -> NoTrip

\* history: the purchases, and the completed payments, that have been on file
\* while the party they name was not
OrphansNext(r) ==
    LET was == IF trip.stage = 0 THEN [purchases |-> {}, payments |-> {}] ELSE trip
    IN [stage |-> 1, kind |-> "orphans",
        purchases |-> was.purchases \cup
            {i \in DOMAIN r.purchases : r.purchases[i].partyId \notin DOMAIN r.parties},
        payments |-> was.payments \cup
            {i \in DOMAIN r.payments :
                /\ r.payments[i].partyId \notin DOMAIN r.parties
                /\ r.payments[i].status = "completed"}]

Record(op, args, r, h) ==
    /\ last' = IF op \in h.rec
               THEN [op |-> op, args |-> args, code |-> r.code, pre |-> Snapshot]
               ELSE NoLast
    /\ trip' = IF h.orphans THEN OrphansNext(r)
               ELSE IF h.track THEN TripNext(op, args, r) ELSE NoTrip
    /\ UNCHANGED reqs

DoPurchaseCreate(cap, names, lists, h) ==
    \E name \in names, phone \in Phones, lines \in lists :
        LET r == PurchaseCreate(name, phone, lines, "pending")
        IN /\ Cardinality(DOMAIN purchases) < cap
           /\ Apply(r, h)
           /\ Record("purchaseCreate", [name |-> name, lines |-> lines], r, h)
           /\ UNCHANGED issued

DoPurchaseUpdate(lists, h) ==
    \E id \in DOMAIN purchases, given \in BOOLEAN, lines \in lists :
        LET r == PurchaseUpdate(id, given, lines, Undefined)
        IN /\ Apply(r, h)
           /\ Record("purchaseUpdate", [id |-> id, given |-> given, lines |-> lines], r, h)
           /\ UNCHANGED issued

DoPurchaseStatus(statuses, h) ==
    \E id \in DOMAIN purchases, status \in statuses :
        LET r == PurchaseStatus(id, status)
        IN /\ Apply(r, h)
           /\ Record("purchaseStatus", [id |-> id, status |-> status], r, h)
           /\ UNCHANGED issued

DoPurchaseDelete(h) ==
    \E id \in DOMAIN purchases :
        LET r == PurchaseDelete(id)
        IN /\ Apply(r, h)
           /\ Record("purchaseDelete", [id |-> id], r, h)
           /\ UNCHANGED issued

DoPaymentCreate(cap, types, names, amounts, statuses, h) ==
    \E type \in types, name \in names, phone \in Phones,
       amount \in amounts, status \in statuses :
        LET r == PaymentCreate(type, name, phone, amount, 0, status)
            no == GenerateNextPaymentNumber(payments, type)
        IN /\ Cardinality(DOMAIN payments) < cap
           /\ ParseInt(no.digits) <= h.top
           /\ Apply(r, h)
           /\ Record("paymentCreate",
                     [type |-> type, name |-> name, amount |-> amount,
                      status |-> status, paymentNo |-> no, before |-> issued[type]],
                     r, h)
           /\ issued' = IF h.num
                        THEN [issued EXCEPT ![type] = @ \cup {ParseInt(no.digits)}]
                        ELSE issued

DoPaymentUpdate(amounts, h) ==
    \E id \in DOMAIN payments, amount \in amounts \cup {NoAmount},
       status \in Statuses \cup {Undefined} :
        LET r == PaymentUpdate(id, amount, status)
        IN /\ Apply(r, h)
           /\ Record("paymentUpdate", [id |-> id, amount |-> amount, status |-> status], r, h)
           /\ UNCHANGED issued

DoPaymentStatus(h) ==
    \E id \in DOMAIN payments, status \in Statuses :
        LET r == PaymentStatus(id, status)
        IN /\ Apply(r, h)
           /\ Record("paymentStatus", [id |-> id, status |-> status], r, h)
           /\ UNCHANGED issued

DoPaymentDelete(h) ==
    \E id \in DOMAIN payments :
        LET r == PaymentDelete(id)
        IN /\ Apply(r, h)
           /\ Record("paymentDelete", [id |-> id], r, h)
           /\ UNCHANGED issued

DoPartyFindOrCreate(cap, names, phones, h) ==
    \E name \in names, phone \in phones, type \in {"supplier", Undefined} :
        LET r == PartyFindOrCreate(name, phone, type)
        IN /\ Cardinality(DOMAIN parties) < cap
           /\ Apply(r, h)
           /\ Record("partyFindOrCreate",
                     [name |-> name, phone |-> phone,
                      id |-> FindOrCreateId(parties, name, phone)], r, h)
           /\ UNCHANGED issued

DoPartyCreate(cap, names, phones, h) ==
    \E name \in names, phone \in phones, type \in {"supplier", Undefined} :
        LET r == PartyCreate(name, phone, type)
        IN /\ Cardinality(DOMAIN parties) < cap
           /\ Apply(r, h)
           /\ Record("partyCreate", [name |-> name, phone |-> phone], r, h)
           /\ UNCHANGED issued

DoPartyUpdate(names, phones, balances, h) ==
    \E id \in DOMAIN parties, name \in names, phone \in phones,
       balance \in balances \cup {NoAmount} :
        LET r == PartyUpdate(id, name, phone, balance)
        IN /\ Apply(r, h)
           /\ Record("partyUpdate",
                     [id |-> id, name |-> name, phone |-> phone, balance |-> balance],
                     r, h)
           /\ UNCHANGED issued

DoPartyBalance(amounts, h) ==
    \E id \in DOMAIN parties, amount \in amounts \cup {NoAmount},
       operation \in {"add", "subtract", "set"} :
        LET r == PartyBalance(id, amount, operation)
        IN /\ \A debt \in h.debts, p \in DOMAIN r.parties : r.parties[p].balance <= debt
           /\ Apply(r, h)
           /\ Record("partyBalance",
                     [id |-> id, amount |-> amount, operation |-> operation], r, h)
           /\ UNCHANGED issued

DoPartyDelete(h) ==
    \E id \in DOMAIN parties :
        LET r == PartyDelete(id)
        IN /\ Apply(r, h)
           /\ Record("partyDelete", [id |-> id], r, h)
           /\ UNCHANGED issued

PurchaseOps == {"purchaseCreate", "purchaseUpdate", "purchaseStatus", "purchaseDelete"}

(* Purchases alone, one request at a time *)
KeepPurchase == Keep(PurchaseOps, FALSE, FALSE, {}, MaxNumber)

NextPurchase ==
    \/ DoPurchaseCreate(MaxPurchases, Names, ItemLists, KeepPurchase)
    \/ DoPurchaseUpdate(ItemLists, KeepPurchase)
    \/ DoPurchaseStatus({"completed"}, KeepPurchase)
    \/ DoPurchaseDelete(KeepPurchase)

SpecPurchase == Init /\ [][NextPurchase]_vars

(* Payments alone, one request at a time *)
KeepPayment == Keep({"paymentDelete"}, FALSE, FALSE, {MaxDebt}, MaxNumber)

NextPayment ==
    \/ DoPaymentCreate(MaxPayments, PaymentTypes, Names, Amounts, Statuses, KeepPayment)
    \/ DoPaymentUpdate({}, KeepPayment)
    \/ DoPaymentStatus(KeepPayment)
    \/ DoPaymentDelete(KeepPayment)

SpecPayment == Init /\ [][NextPayment]_vars

(* Purchases and payments, one request at a time *)
KeepNothing == Keep({}, FALSE, FALSE, {MaxDebt}, MaxNumber)

Next ==
    \/ DoPurchaseCreate(MaxPurchases, Names, LedgerLists, KeepNothing)
    \/ DoPurchaseUpdate(LedgerLists, KeepNothing)
    \/ DoPurchaseStatus({"completed"}, KeepNothing)
    \/ DoPurchaseDelete(KeepNothing)
    \/ DoPaymentCreate(MaxPayments, {"payment-in"}, Names, {2}, Statuses, KeepNothing)
    \/ DoPaymentUpdate({2}, KeepNothing)
    \/ DoPaymentStatus(KeepNothing)
    \/ DoPaymentDelete(KeepNothing)

Spec == Init /\ [][Next]_vars

(* Purchases alone, following each create - update - delete of one Purchase *)
KeepRoundTrip == Keep({}, TRUE, FALSE, {}, MaxNumber)

NextRoundTrip ==
    \/ DoPurchaseCreate(MaxPurchases, Names, ItemLists, KeepRoundTrip)
    \/ DoPurchaseUpdate(ItemLists, KeepRoundTrip)
    \/ DoPurchaseStatus({"completed"}, KeepRoundTrip)
    \/ DoPurchaseDelete(KeepRoundTrip)

SpecRoundTrip == Init /\ [][NextRoundTrip]_vars

(* Payments alone, following each cancel - complete of one Payment *)
KeepToggle == Keep({}, TRUE, FALSE, {MaxDebt}, MaxNumber)

NextToggle ==
    \/ DoPaymentCreate(MaxPayments, PaymentTypes, Names, Amounts, Statuses, KeepToggle)
    \/ DoPaymentUpdate({}, KeepToggle)
    \/ DoPaymentStatus(KeepToggle)
    \/ DoPaymentDelete(KeepToggle)

SpecToggle == Init /\ [][NextToggle]_vars

(* Payment creation alone, following the numbers handed out *)
KeepNumbers == Keep({"paymentCreate"}, FALSE, TRUE, {}, MaxNumbered)

NextNumbering ==
    DoPaymentCreate(MaxNumbered, PaymentTypes, {"A"}, {1}, {"completed"}, KeepNumbers)

SpecNumbering == Init /\ [][NextNumbering]_vars

(* Status updates of purchases *)
KeepPurchaseStatus == Keep({"purchaseStatus"}, FALSE, FALSE, {}, MaxNumber)

NextPurchaseStatus ==
    \/ DoPurchaseCreate(MaxPurchases, Names, LedgerLists, KeepPurchaseStatus)
    \/ DoPurchaseStatus(Statuses, KeepPurchaseStatus)

SpecPurchaseStatus == Init /\ [][NextPurchaseStatus]_vars

(* Status updates of payments *)
KeepStatus == Keep({"paymentStatus"}, FALSE, FALSE, {MaxDebt}, MaxNumber)

NextStatus ==
    \/ DoPaymentCreate(MaxPayments, {"payment-in"}, {"A", "B"}, {1}, Statuses, KeepStatus)
    \/ DoPaymentStatus(KeepStatus)

SpecStatus == Init /\ [][NextStatus]_vars

(* Deletes of purchases and payments whose party may have been deleted *)
KeepOrphan == Keep({"purchaseDelete", "paymentDelete"}, FALSE, FALSE, {MaxDebt}, MaxNumber)

NextOrphan ==
    \/ DoPurchaseCreate(MaxPurchases, {"A"}, LedgerLists, KeepOrphan)
    \/ DoPurchaseDelete(KeepOrphan)
    \/ DoPaymentCreate(MaxPayments, {"payment-out"}, {"A"}, {1},
                       {"completed", "pending"}, KeepOrphan)
    \/ DoPaymentDelete(KeepOrphan)
    \/ DoPartyDelete(KeepOrphan)

SpecOrphan == Init /\ [][NextOrphan]_vars

(* The party routes: find-or-create twice in a row, between direct balance *)
(* edits and deletes *)
RawPhones == { Phone, <<"1", "1">>, <<"1", " ", "1">>, <<"+", "9", "1", "-", "1">> }
KeepParty == Keep({}, TRUE, FALSE, {MaxDebt}, MaxNumber)

NextParty ==
    \/ DoPartyFindOrCreate(MaxParties, Names \cup {""}, RawPhones \cup {<<>>}, KeepParty)
    \/ DoPartyBalance({2}, KeepParty)
    \/ DoPartyDelete(KeepParty)

SpecParty == Init /\ [][NextParty]_vars

----------------------------------------------------------------------------
(* Purchase routes, step by step.  A request in flight advances from one   *)
(* await of its handler to the next; between two awaits of one request any *)
(* other request may run.  An Item is read (findById / findOne) in one     *)
(* step and written (save) in a later one, with the value computed from    *)
(* what was read.                                                          *)

NoDoc == [partyId |-> NoParty, items |-> <<>>, totalAmount |-> 0, status |-> ""]
\* A request that has answered, with the Item values it read and wrote
DoneReq(r, code) ==
    [pc |-> "done", op |-> r.op, id |-> r.id, code |-> code,
     seen |-> r.seen, wrote |-> r.wrote]

Active == {k \in DOMAIN reqs : reqs[k].pc # "done"}

NewReq(op, id, name, lines) ==
    [op |-> op, pc |-> IF op = "create" THEN "party" ELSE "load",
     id |-> id, name |-> name, lines |-> lines, doc |-> NoDoc, party |-> NoParty,
     total |-> 0, todo |-> <<>>, mode |-> "", item |-> 0, log |-> <<>>,
     pre |-> Snapshot, alone |-> (Active = {}), clamped |-> FALSE, faults |-> {},
     seen |-> <<>>, wrote |-> <<>>]

\* save() of an Item document read earlier: only a modified openingStock
\* is written, and it is written as the value computed from what was read
SaveStockAtomic(its, id, read, new) ==
    [its EXCEPT ![id].openingStock = @ + (new - read)]

SaveStock(its, id, read, new) ==
    IF new = read THEN its ELSE [its EXCEPT ![id].openingStock = new]

\* A request arrives: it is no longer alone, nor are those in flight
Arrive(op, id, name, lines) ==
    /\ Cardinality(DOMAIN reqs) < MaxRequests
    /\ reqs' = [k \in DOMAIN reqs |->
                  IF k \in Active THEN [reqs[k] EXCEPT !.alone = FALSE] ELSE reqs[k]]
               @@ (NewId(DOMAIN reqs) :> NewReq(op, id, name, lines))
    /\ last' = NoLast
    /\ UNCHANGED <<parties, items, purchases, payments, trip, issued>>

\* A request arrives, none being in flight, in which the calls named by
\* `faults` will throw: "ledger" (Party.updateBalance), an item id (that
\* item's save), "bardana" (the universal item's save)
ArriveFaulty(op, id, name, lines, faults) ==
    /\ Cardinality(DOMAIN reqs) < MaxRequests
    /\ Active = {}
    /\ reqs' = reqs @@ (NewId(DOMAIN reqs) :>
                  [NewReq(op, id, name, lines) EXCEPT !.faults = faults])
    /\ last' = NoLast
    /\ UNCHANGED <<parties, items, purchases, payments, trip, issued>>

StartCreate == \E name \in {"A"}, lines \in ConcLists : Arrive("create", 0, name, lines)
StartUpdate == \E id \in DOMAIN purchases, lines \in ConcLists : Arrive("update", id, "", lines)
StartDelete == \E id \in DOMAIN purchases : Arrive("delete", id, "", <<>>)

\* The request answers: res.json(...)
Respond(k, r, code) ==
    /\ reqs' = [reqs EXCEPT ![k] = DoneReq(r, code)]
    /\ last' = [op |-> r.op, code |-> code, args |-> [id |-> r.id, lines |-> r.lines],
                doc |-> r.doc, pre |-> r.pre, alone |-> r.alone, log |-> r.log,
                clamped |-> r.clamped, faults |-> r.faults]
    /\ UNCHANGED <<payments, trip, issued>>

Continue(k, r) ==
    /\ reqs' = [reqs EXCEPT ![k] = r]
    /\ last' = NoLast
    /\ UNCHANGED <<payments, trip, issued>>

\* What follows the universal item's adjustment
AfterBardana(k, r) ==
    IF r.op = "delete"
    THEN IF r.doc.partyId # NoParty
         THEN Continue(k, [r EXCEPT !.pc = "ledger"])
         ELSE Continue(k, [r EXCEPT !.pc = "remove"])
    ELSE Respond(k, r, IF r.op = "create" THEN 201 ELSE 200)

\* What follows a loop over line items
AfterLines(k, r) ==
    IF r.op = "update" /\ r.mode = "restore"
    THEN Continue(k, [r EXCEPT !.mode = "increase", !.todo = r.lines, !.pc = "line"])
    ELSE Continue(k, [r EXCEPT !.pc = "bardana"])

\* Enter a loop over `lines`
Loop(k, r, mode, lines) ==
    IF lines = <<>>
    THEN AfterLines(k, [r EXCEPT !.mode = mode])
    ELSE Continue(k, [r EXCEPT !.mode = mode, !.todo = lines, !.pc = "line"])

\* create: const party = await Party.findOrCreate(...)
StepParty(k) ==
    LET r == reqs[k]
    IN /\ r.pc = "party"
       /\ parties' = FindOrCreateStore(parties, r.name, Phone)
       /\ Continue(k, [r EXCEPT !.party = FindOrCreateId(parties, r.name, Phone),
                                !.pc = "save"])
       /\ UNCHANGED <<items, purchases>>

\* update, delete: const purchase = await Purchase.findById(req.params.id)
StepLoad(k) ==
    LET r == reqs[k]
    IN /\ r.pc = "load"
       /\ IF r.id \notin DOMAIN purchases
          THEN Respond(k, r, 404)
          ELSE LET r1 == [r EXCEPT !.doc = purchases[r.id]]
               IN IF r.op = "update"
                  THEN Continue(k, [r1 EXCEPT !.pc = "save"])
                  ELSE Loop(k, r1, "restore", r1.doc.items)
       /\ UNCHANGED <<parties, items, purchases>>

\* create, update: await purchase.save()
StepSave(k) ==
    LET r == reqs[k]
    IN /\ r.pc = "save"
       /\ IF r.op = "create"
          THEN LET id == NewId(DOMAIN purchases)
                   total == TotalAmount(r.lines)
               IN /\ purchases' = purchases @@ (id :>
                        [partyId |-> r.party, items |-> r.lines,
                         totalAmount |-> total, status |-> "pending"])
                  /\ Continue(k, [r EXCEPT !.id = id, !.total = total, !.pc = "ledger",
                                           !.log = Append(@, "persist")])
          ELSE IF r.id \notin DOMAIN purchases
          THEN \* the document is gone: save() throws
               purchases' = purchases /\ Respond(k, r, 500)
          ELSE LET total == TotalAmount(r.lines)
                   r1 == [r EXCEPT !.total = total, !.party = r.doc.partyId,
                                   !.log = Append(@, "persist")]
               IN /\ purchases' = [purchases EXCEPT ![r.id] =
                        [partyId |-> r.doc.partyId, items |-> r.lines,
                         totalAmount |-> total, status |-> r.doc.status]]
                  /\ IF r.doc.partyId # NoParty /\ r.doc.totalAmount # total
                     THEN Continue(k, [r1 EXCEPT !.pc = "ledger"])
                     ELSE IF r.doc.items # r.lines
                     THEN Loop(k, r1, "restore", r.doc.items)
                     ELSE Respond(k, r1, 200)
       /\ UNCHANGED <<parties, items>>

StepLedgerSwallowing(k) ==
    LET r == reqs[k]
        party == IF r.op = "create" THEN r.party ELSE r.doc.partyId
    IN /\ r.pc = "ledger"
       /\ parties' = IF ~UpdateBalanceOk(parties, party) \/ "ledger" \in r.faults
                     THEN parties
                     ELSE UpdateBalance(parties, party,
                            CASE r.op = "create" -> r.total
                              [] r.op = "update" ->
                                   BalanceDifference(r.total, r.doc.totalAmount)
                              [] r.op = "delete" -> 0 - r.doc.totalAmount, "add")
       /\ CASE r.op = "create" -> Loop(k, r, "increase", r.lines)
            [] r.op = "update" -> IF r.doc.items # r.lines
                                  THEN Loop(k, r, "restore", r.doc.items)
                                  ELSE Respond(k, r, 200)
            [] r.op = "delete" -> Continue(k, [r EXCEPT !.pc = "remove"])
       /\ UNCHANGED <<items, purchases>>

\* await Party.updateBalance(...)
StepLedger(k) ==
    LET r == reqs[k]
        party == IF r.op = "create" THEN r.party ELSE r.doc.partyId
        r1 == [r EXCEPT !.log = Append(@, "ledger")]
    IN /\ r.pc = "ledger"
       /\ IF ~UpdateBalanceOk(parties, party) \/ "ledger" \in r.faults
          THEN \* the call throws: the handler's catch answers
               parties' = parties /\ Respond(k, r, 500)
          ELSE CASE r.op = "create" ->
                      /\ parties' = UpdateBalance(parties, party, r.total, "add")
                      /\ Loop(k, r1, "increase", r.lines)
                 [] r.op = "update" ->
                      /\ parties' = UpdateBalance(parties, party,
                            BalanceDifference(r.total, r.doc.totalAmount), "add")
                      /\ IF r.doc.items # r.lines
                         THEN Loop(k, r1, "restore", r.doc.items)
                         ELSE Respond(k, r1, 200)
                 [] r.op = "delete" ->
                      /\ parties' = UpdateBalance(parties, party,
                                                  r.doc.totalAmount, "subtract")
                      /\ Continue(k, [r1 EXCEPT !.pc = "remove"])
       /\ UNCHANGED <<items, purchases>>

\* const item = await Item.findById(line.id)
StepReadItem(k) ==
    LET r == reqs[k]
        l == Head(r.todo)
    IN /\ r.pc = "line"
       /\ IF l.id \in DOMAIN items
          THEN Continue(k, [r EXCEPT !.item = items[l.id].openingStock, !.pc = "item",
                                     !.seen = Append(@, <<l.id, items[l.id].openingStock>>)])
          ELSE IF Tail(r.todo) = <<>>
          THEN AfterLines(k, [r EXCEPT !.todo = <<>>])
          ELSE Continue(k, [r EXCEPT !.todo = Tail(@)])
       /\ UNCHANGED <<parties, items, purchases>>

StepWriteItemAborting(k) ==
    LET r == reqs[k]
        l == Head(r.todo)
        r1 == [r EXCEPT !.todo = Tail(@), !.log = Append(@, l.id)]
    IN /\ r.pc = "item"
       /\ IF l.id \in r.faults
          THEN items' = items /\ Respond(k, r, 500)
          ELSE /\ items' = SaveStock(items, l.id, r.item,
                       IF r.mode = "increase" THEN StockIncreased(r.item, l.quantity)
                       ELSE StockRestored(r.item, l.quantity))
               /\ IF r1.todo = <<>> THEN AfterLines(k, r1)
                  ELSE Continue(k, [r1 EXCEPT !.pc = "line"])
       /\ UNCHANGED <<parties, purchases>>

\* item.openingStock += / -= ...; await item.save(), inside try/catch
StepWriteItem(k) ==
    LET r == reqs[k]
        l == Head(r.todo)
        failed == l.id \in r.faults
        new == IF r.mode = "increase" THEN StockIncreased(r.item, l.quantity)
               ELSE StockRestored(r.item, l.quantity)
        r1 == IF failed THEN [r EXCEPT !.todo = Tail(@)]
              ELSE [r EXCEPT !.todo = Tail(@), !.log = Append(@, l.id),
                             !.wrote = Append(@, <<l.id, new>>),
                             !.clamped = @ \/ (r.mode = "restore"
                                                /\ r.item < QuantityInBags(l.quantity))]
    IN /\ r.pc = "item"
       /\ items' = IF failed THEN items ELSE SaveStock(items, l.id, r.item, new)
       /\ IF r1.todo = <<>> THEN AfterLines(k, r1) ELSE Continue(k, [r1 EXCEPT !.pc = "line"])
       /\ UNCHANGED <<parties, purchases>>

\* const bardanaItem = await Item.findOne({isUniversal: true, productName: 'Bardana'})
StepReadBardana(k) ==
    LET r == reqs[k]
    IN /\ r.pc = "bardana"
       /\ IF FindBardana(items) = {}
          THEN AfterBardana(k, r)
          ELSE LET b == CHOOSE i \in FindBardana(items) : TRUE
               IN Continue(k, [r EXCEPT !.item = items[b].openingStock,
                                        !.pc = "universal",
                                        !.seen = Append(@, <<b, items[b].openingStock>>)])
       /\ UNCHANGED <<parties, items, purchases>>

\* bardanaItem.openingStock ...; await bardanaItem.save()
StepWriteBardana(k) ==
    LET r == reqs[k]
        b == CHOOSE i \in FindBardana(items) : TRUE
        new == CASE r.op = "create" -> StockIncreased(r.item, SumQuantity(r.lines))
                 [] r.op = "update" -> StockShifted(r.item,
                        SumQuantity(r.lines) - SumQuantity(r.doc.items))
                 [] r.op = "delete" -> StockRestored(r.item, SumQuantity(r.doc.items))
    IN /\ r.pc = "universal"
       /\ items' = IF "bardana" \in r.faults THEN items
                   ELSE SaveStock(items, b, r.item, new)
       /\ AfterBardana(k, IF "bardana" \in r.faults THEN r ELSE
                          [r EXCEPT !.log = Append(@, b),
                                    !.wrote = Append(@, <<b, new>>),
               !.clamped = @ \/ (r.op = "delete"
                                  /\ r.item < QuantityInBags(SumQuantity(r.doc.items)))
                             \/ (r.op = "update"
                                  /\ r.item + QuantityInBags(SumQuantity(r.lines))
                                     < QuantityInBags(SumQuantity(r.doc.items)))])
       /\ UNCHANGED <<parties, purchases>>

\* delete: await Purchase.findByIdAndDelete(req.params.id)
StepRemove(k) ==
    LET r == reqs[k]
    IN /\ r.pc = "remove"
       /\ purchases' = Remove(purchases, r.id)
       /\ Respond(k, [r EXCEPT !.log = Append(@, "remove")], 200)
       /\ UNCHANGED <<parties, items>>

\* The store when the requests arrive: one Purchase of supplier A has been
\* created (POST /api/purchases with one line of 45 kg of I1 at price 2).
ConcStart ==
    [parties |-> <<[name |-> "A", phoneNumber |-> Phone, balance |-> 90]>>,
     items |-> [i \in OrdinaryItemIds \cup {BardanaId} |->
                  [productName |-> IF i = BardanaId THEN "Bardana" ELSE i,
                   isUniversal |-> (i = BardanaId),
                   openingStock |-> IF i = "I2" THEN InitialStock ELSE 45]],
     purchases |-> <<[partyId |-> 1, items |-> <<L("I1", 45)>>,
                      totalAmount |-> 90, status |-> "pending"]>>,
     payments |-> <<>>]

InitConc ==
    /\ parties = ConcStart.parties
    /\ items = ConcStart.items
    /\ purchases = ConcStart.purchases
    /\ payments = ConcStart.payments
    /\ last = NoLast
    /\ trip = NoTrip
    /\ issued = [t \in PaymentTypes |-> {}]
    /\ reqs = <<>>

NextConc ==
    \/ StartCreate
    \/ StartUpdate
    \/ StartDelete
    \/ \E k \in DOMAIN reqs : StepParty(k)
    \/ \E k \in DOMAIN reqs : StepLoad(k)
    \/ \E k \in DOMAIN reqs : StepSave(k)
    \/ \E k \in DOMAIN reqs : StepLedger(k)
    \/ \E k \in DOMAIN reqs : StepReadItem(k)
    \/ \E k \in DOMAIN reqs : StepWriteItem(k)
    \/ \E k \in DOMAIN reqs : StepReadBardana(k)
    \/ \E k \in DOMAIN reqs : StepWriteBardana(k)
    \/ \E k \in DOMAIN reqs : StepRemove(k)

SpecConc == InitConc /\ [][NextConc]_vars

(* The purchase routes step by step, one request at a time, with calls that throw *)
FaultLists == { <<L("I1", 45)>>, <<L("IX", 30), L("I2", 45)>>, <<L("I2", 30), L("I1", 30)>> }
FaultSets == { {}, {"ledger"}, {"I1"}, {"I2"}, {"bardana"}, {"I2", "bardana"} }

CreateFaulty ==
    \E name \in {"A"}, lines \in FaultLists, faults \in FaultSets :
        ArriveFaulty("create", 0, name, lines, faults)
UpdateFaulty ==
    \E id \in DOMAIN purchases, lines \in FaultLists, faults \in FaultSets :
        ArriveFaulty("update", id, "", lines, faults)
DeleteFaulty ==
    \E id \in DOMAIN purchases, faults \in FaultSets :
        ArriveFaulty("delete", id, "", <<>>, faults)

NextFault ==
    \/ CreateFaulty
    \/ UpdateFaulty
    \/ DeleteFaulty
    \/ \E k \in DOMAIN reqs : StepParty(k)
    \/ \E k \in DOMAIN reqs : StepLoad(k)
    \/ \E k \in DOMAIN reqs : StepSave(k)
    \/ \E k \in DOMAIN reqs : StepLedger(k)
    \/ \E k \in DOMAIN reqs : StepReadItem(k)
    \/ \E k \in DOMAIN reqs : StepWriteItem(k)
    \/ \E k \in DOMAIN reqs : StepReadBardana(k)
    \/ \E k \in DOMAIN reqs : StepWriteBardana(k)
    \/ \E k \in DOMAIN reqs : StepRemove(k)

SpecFault == InitConc /\ [][NextFault]_vars

(* Purchase deletes step by step, one request at a time, with calls that throw *)

\* The store after two purchase creates of supplier A, each of 45 kg of I1 at
\* price 2
RetryStart ==
    [parties |-> <<[name |-> "A", phoneNumber |-> Phone, balance |-> 180]>>,
     items |-> [i \in OrdinaryItemIds \cup {BardanaId} |->
                  [productName |-> IF i = BardanaId THEN "Bardana" ELSE i,
                   isUniversal |-> (i = BardanaId),
                   openingStock |-> IF i = "I2" THEN InitialStock ELSE 90]],
     purchases |-> [n \in 1..2 |-> [partyId |-> 1, items |-> <<L("I1", 45)>>,
                                    totalAmount |-> 90, status |-> "pending"]],
     payments |-> <<>>]

InitRetry ==
    /\ parties = RetryStart.parties
    /\ items = RetryStart.items
    /\ purchases = RetryStart.purchases
    /\ payments = RetryStart.payments
    /\ last = NoLast
    /\ trip = NoTrip
    /\ issued = [t \in PaymentTypes |-> {}]
    /\ reqs = <<>>

NextRetry ==
    \/ DeleteFaulty
    \/ \E k \in DOMAIN reqs : StepLoad(k)
    \/ \E k \in DOMAIN reqs : StepLedger(k)
    \/ \E k \in DOMAIN reqs : StepReadItem(k)
    \/ \E k \in DOMAIN reqs : StepWriteItem(k)
    \/ \E k \in DOMAIN reqs : StepReadBardana(k)
    \/ \E k \in DOMAIN reqs : StepWriteBardana(k)
    \/ \E k \in DOMAIN reqs : StepRemove(k)

SpecRetry == InitRetry /\ [][NextRetry]_vars

----------------------------------------------------------------------------
(* Payment create, one step per await *)

NoNumber == [prefix |-> "", digits |-> <<>>]

\* A POST /api/payments request that passed validation
NewPaymentReq(type, name, amount) ==
    [op |-> "payment", pc |-> "number", type |-> type, name |-> name,
     amount |-> amount, paymentNo |-> NoNumber, basis |-> {},
     party |-> NoParty, code |-> Undefined]

StartPayment ==
    \E type \in PaymentTypes, name \in Names :
        /\ Cardinality(DOMAIN reqs) < MaxRequests
        /\ reqs' = reqs @@ (NewId(DOMAIN reqs) :> NewPaymentReq(type, name, 1))
        /\ UNCHANGED <<store, last, trip, issued>>

\* const paymentNo = await Payment.generateNextPaymentNumber(type)
\* (basis: the payments of the type on file when the number was read)
StepNumber(k) ==
    LET r == reqs[k]
    IN /\ r.pc = "number"
       /\ reqs' = [reqs EXCEPT ![k] = [r EXCEPT
              !.paymentNo = GenerateNextPaymentNumber(payments, r.type),
              !.basis = {i \in DOMAIN payments :
                            payments[i].paymentNo.prefix = Prefix(r.type)},
              !.pc = "party"]]
       /\ UNCHANGED <<store, last, trip, issued>>

\* const party = await Party.findOrCreate({name, phoneNumber})
StepPaymentParty(k) ==
    LET r == reqs[k]
    IN /\ r.pc = "party"
       /\ parties' = FindOrCreateStore(parties, r.name, Phone)
       /\ reqs' = [reqs EXCEPT ![k] = [r EXCEPT
              !.party = FindOrCreateId(parties, r.name, Phone), !.pc = "save"]]
       /\ UNCHANGED <<items, purchases, payments, last, trip, issued>>

\* A save on a collection without the unique index on paymentNo
StepPaymentSaveUnindexed(k) ==
    LET r == reqs[k]
        payment == [paymentNo |-> r.paymentNo, type |-> r.type, amount |-> r.amount,
                    totalAmount |-> PreSaveTotal(r.amount, r.amount),
                    status |-> "completed", partyId |-> r.party]
    IN /\ r.pc = "save"
       /\ reqs' = [reqs EXCEPT ![k] = [r EXCEPT !.pc = "ledger"]]
       /\ payments' = payments @@ (NewId(DOMAIN payments) :> payment)
       /\ UNCHANGED <<parties, items, purchases, last, trip, issued>>

\* await payment.save(): the unique index on paymentNo rejects a number on file
StepPaymentSave(k) ==
    LET r == reqs[k]
        payment == [paymentNo |-> r.paymentNo, type |-> r.type, amount |-> r.amount,
                    totalAmount |-> PreSaveTotal(r.amount, r.amount),
                    status |-> "completed", partyId |-> r.party]
    IN /\ r.pc = "save"
       /\ IF \E i \in DOMAIN payments : payments[i].paymentNo = r.paymentNo
          THEN /\ reqs' = [reqs EXCEPT ![k] = [r EXCEPT !.pc = "done", !.code = 500]]
               /\ UNCHANGED payments
          ELSE /\ reqs' = [reqs EXCEPT ![k] = [r EXCEPT !.pc = "ledger"]]
               /\ payments' = payments @@ (NewId(DOMAIN payments) :> payment)
       /\ UNCHANGED <<parties, items, purchases, last, trip, issued>>

\* await Payment.updatePartyBalance(payment); res.status(201)
StepPaymentLedger(k) ==
    LET r == reqs[k]
    IN /\ r.pc = "ledger"
       /\ parties' = UpdatePartyBalance(parties,
                         [partyId |-> r.party, amount |-> r.amount, type |-> r.type])
       /\ reqs' = [reqs EXCEPT ![k] = [r EXCEPT !.pc = "done", !.code = 201]]
       /\ UNCHANGED <<items, purchases, payments, last, trip, issued>>

NextPayConc ==
    \/ StartPayment
    \/ \E k \in DOMAIN reqs : StepNumber(k)
    \/ \E k \in DOMAIN reqs : StepPaymentParty(k)
    \/ \E k \in DOMAIN reqs : StepPaymentSave(k)
    \/ \E k \in DOMAIN reqs : StepPaymentLedger(k)

SpecPayConc == Init /\ [][NextPayConc]_vars

----------------------------------------------------------------------------
(* Server startup *)

\* The _id values a new Item document can take
BardanaIds == {BardanaId, "B1"}

InitializeBardanaAlways(its) ==
    IF BardanaIds \subseteq DOMAIN its THEN its
    ELSE its @@ ((CHOOSE i \in BardanaIds : i \notin DOMAIN its) :>
                 [productName |-> "Bardana", isUniversal |-> TRUE,
                  openingStock |-> InitialStock])

\* initializeBardana(): the Item collection it leaves
InitializeBardana(its) ==
    LET existingBardana == FindBardana(its)
    IN IF existingBardana = {}
       THEN its @@ ((CHOOSE i \in BardanaIds : i \notin DOMAIN its) :>
                    [productName |-> "Bardana", isUniversal |-> TRUE,
                     openingStock |-> InitialStock])
       ELSE its

\* app.listen(PORT, async () => { ...; await initializeBardana() })
Startup ==
    /\ items' = InitializeBardana(items)
    /\ last' = [op |-> "startup", pre |-> Snapshot]
    /\ UNCHANGED <<parties, purchases, payments, trip, issued, reqs>>

\* A database no server has started on yet
InitStartup ==
    /\ parties = <<>>
    /\ items = [i \in OrdinaryItemIds |->
                  [productName |-> i, isUniversal |-> FALSE,
                   openingStock |-> InitialStock]]
    /\ purchases = <<>>
    /\ payments = <<>>
    /\ last = NoLast
    /\ trip = NoTrip
    /\ issued = [t \in PaymentTypes |-> {}]
    /\ reqs = <<>>

KeepStartup == Keep({}, FALSE, FALSE, {MaxDebt}, MaxNumber)

NextStartup ==
    \/ Startup
    \/ DoPurchaseCreate(MaxPurchases, Names, LedgerLists, KeepStartup)
    \/ DoPurchaseDelete(KeepStartup)

SpecStartup == InitStartup /\ [][NextStartup]_vars

----------------------------------------------------------------------------
(* Create requests from their bodies: field validation, then the handler *)

\* Values of req.body fields: absent, a string, a phone string (as characters),
\* a number, an array of line items, or some other object
Absent == [t |-> "undefined"]
Str(v) == [t |-> "string", v |-> v]
Chars(v) == [t |-> "chars", v |-> v]
Num(v) == [t |-> "number", v |-> v]
Arr(v) == [t |-> "array", v |-> v]
Obj == [t |-> "object"]

\* !x
Falsy(x) ==
    \/ x.t = "undefined"
    \/ x.t = "string" /\ x.v = ""
    \/ x.t = "chars" /\ x.v = <<>>
    \/ x.t = "number" /\ x.v = 0

\* const { status = 'pending' } = req.body
Default(x, value) == IF x.t = "undefined" THEN value ELSE x.v

ItemsRejectedUnlessArray(its) == its.t # "array"

\* !Array.isArray(items) || items.length === 0
ItemsRejected(its) == its.t # "array" \/ Len(its.v) = 0

\* POST /api/purchases with body [supplierName, phoneNumber, items, date, status]
PurchaseCreateRequest(body) ==
    IF \/ Falsy(body.supplierName) \/ Falsy(body.phoneNumber)
       \/ Falsy(body.items) \/ Falsy(body.date)
    THEN Answer(parties, items, purchases, payments, 400)
    ELSE IF ItemsRejected(body.items)
    THEN Answer(parties, items, purchases, payments, 400)
    ELSE PurchaseCreate(body.supplierName.v, body.phoneNumber.v, body.items.v,
                        Default(body.status, "pending"))

\* POST /api/payments with body [type, partyName, phoneNumber, amount,
\* totalAmount, date, status]
PaymentCreateRequest(body) ==
    IF \/ Falsy(body.partyName) \/ Falsy(body.phoneNumber)
       \/ Falsy(body.amount) \/ Falsy(body.date)
    THEN Answer(parties, items, purchases, payments, 400)
    ELSE IF body.amount.v <= 0
    THEN Answer(parties, items, purchases, payments, 400)
    ELSE PaymentCreate(Default(body.type, "payment-in"), body.partyName.v,
                       body.phoneNumber.v, body.amount.v,
                       Default(body.totalAmount, 0),
                       Default(body.status, "completed"))

DoPurchaseCreateRequest(cap, bodies, h) ==
    \E body \in bodies :
        LET r == PurchaseCreateRequest(body)
        IN /\ Cardinality(DOMAIN purchases) < cap
           /\ Apply(r, h)
           /\ Record("purchaseCreateRequest", [body |-> body], r, h)
           /\ UNCHANGED issued

DoPaymentCreateRequest(cap, bodies, h) ==
    \E body \in bodies :
        LET r == PaymentCreateRequest(body)
        IN /\ Cardinality(DOMAIN payments) < cap
           /\ Apply(r, h)
           /\ Record("paymentCreateRequest", [body |-> body], r, h)
           /\ UNCHANGED issued

PurchaseBodies ==
    [supplierName : {Str("A"), Str(""), Absent},
     phoneNumber : {Chars(Phone), Absent},
     items : {Arr(<<L("I1", 30)>>), Arr(<<>>), Obj, Absent},
     date : {Str("2024-01-01"), Absent},
     status : {Absent}]

PaymentBodies ==
    [type : {Absent, Str("payment-out")},
     partyName : {Str("A"), Absent},
     phoneNumber : {Chars(Phone), Chars(<<>>), Absent},
     amount : {Num(1), Num(0), Num(-1), Absent},
     totalAmount : {Absent},
     date : {Str("2024-01-01"), Absent},
     status : {Absent}]

KeepValidation ==
    Keep({"purchaseCreateRequest", "paymentCreateRequest"}, FALSE, FALSE,
         {MaxDebt}, MaxNumber)

NextValidation ==
    \/ DoPurchaseCreateRequest(MaxPurchases, PurchaseBodies, KeepValidation)
    \/ DoPaymentCreateRequest(MaxPayments, PaymentBodies, KeepValidation)

SpecValidation == Init /\ [][NextValidation]_vars

----------------------------------------------------------------------------
(* Payments of both types created and deleted, one request at a time *)

KeepTypes == Keep({"paymentCreate", "paymentDelete"}, FALSE, FALSE, {MaxDebt}, MaxNumber)

NextTypes ==
    \/ DoPaymentCreate(MaxPayments, PaymentTypes, {"A"}, {1}, Statuses, KeepTypes)
    \/ DoPaymentDelete(KeepTypes)

SpecTypes == Init /\ [][NextTypes]_vars

----------------------------------------------------------------------------
(* Payments created and updated, one request at a time *)

KeepPaymentUpdate == Keep({"paymentUpdate"}, FALSE, FALSE, {MaxDebt}, MaxNumber)

NextPaymentUpdate ==
    \/ DoPaymentCreate(MaxPayments, PaymentTypes, Names, Amounts, Statuses,
                       KeepPaymentUpdate)
    \/ DoPaymentUpdate(Amounts, KeepPaymentUpdate)

SpecPaymentUpdate == Init /\ [][NextPaymentUpdate]_vars

----------------------------------------------------------------------------
(* Payments alone, following each create - delete of one Payment *)

KeepPayTrip == Keep({}, TRUE, FALSE, {MaxDebt}, MaxNumber)

NextPayTrip ==
    \/ DoPaymentCreate(MaxPayments, PaymentTypes, Names, Amounts, Statuses, KeepPayTrip)
    \/ DoPaymentDelete(KeepPayTrip)

SpecPayTrip == Init /\ [][NextPayTrip]_vars

----------------------------------------------------------------------------
(* Party create, update and find-or-create, one request at a time *)

KeepPairs == Keep({"partyCreate", "partyUpdate"}, FALSE, FALSE, {MaxDebt}, MaxNumber)

NextPairs ==
    \/ DoPartyCreate(MaxParties, Names \cup {""}, {Phone, <<"1", "1">>, <<>>}, KeepPairs)
    \/ DoPartyUpdate(Names \cup {""}, {Phone, <<"1", "1">>, <<>>}, {1}, KeepPairs)
    \/ DoPartyFindOrCreate(MaxParties, Names, {Phone, <<"1", "1">>}, KeepPairs)

SpecPairs == Init /\ [][NextPairs]_vars

----------------------------------------------------------------------------
(* Transactions of deleted parties: deletes and status updates, one request *)
(* at a time *)

KeepOrphaned ==
    [Keep({"partyDelete", "purchaseDelete", "paymentDelete"}, FALSE, FALSE,
          {MaxDebt}, MaxNumber) EXCEPT !.orphans = TRUE]

NextOrphaned ==
    \/ DoPurchaseCreate(MaxPurchases, {"A"}, {<<L("I1", 30)>>}, KeepOrphaned)
    \/ DoPurchaseDelete(KeepOrphaned)
    \/ DoPaymentCreate(MaxPayments, {"payment-out"}, {"A"}, {1}, {"completed"},
                       KeepOrphaned)
    \/ DoPaymentStatus(KeepOrphaned)
    \/ DoPaymentDelete(KeepOrphaned)
    \/ DoPartyDelete(KeepOrphaned)

SpecOrphaned == Init /\ [][NextOrphaned]_vars

----------------------------------------------------------------------------
(* Properties *)

RECURSIVE Kg(_, _)
\* The kilograms a list of lines names for the items `ids`
Kg(lines, ids) ==
    IF lines = <<>> THEN 0
    ELSE (IF Head(lines).id \in ids THEN Head(lines).quantity ELSE 0) + Kg(Tail(lines), ids)

AllLineIds == OrdinaryItemIds \cup {UnknownItemId}

RECURSIVE KgOnRecord(_)
\* The kilograms of all lines of all purchases of a collection
KgOnRecord(pus) ==
    IF DOMAIN pus = {} THEN 0
    ELSE LET i == CHOOSE x \in DOMAIN pus : TRUE
         IN Kg(pus[i].items, AllLineIds) + KgOnRecord(Remove(pus, i))

RECURSIVE Paid(_, _)
\* The amounts of the payments of party p that are not cancelled
Paid(pas, p) ==
    IF DOMAIN pas = {} THEN 0
    ELSE LET i == CHOOSE x \in DOMAIN pas : TRUE
         IN (IF pas[i].partyId = p /\ pas[i].status # "cancelled" THEN pas[i].amount ELSE 0)
            + Paid(Remove(pas, i), p)

\* a stock difference (in units) is `kg` kilograms' worth of bags
IsKg(units, kg) == units * KgPerBag = kg * UnitsPerBag

Stock(its, i) == its[i].openingStock
Balance(ps, p) == ps[p].balance

(* C2: in every state each party's balance is the total of the purchases   *)
(* on record for it minus the amounts of its payments on record that are   *)
(* not cancelled.                                                          *)
C2_BalanceIsSumOfTransactions ==
    \A p \in DOMAIN parties :
        Balance(parties, p) = Owed(purchases, p) - Paid(payments, p)

(* C1: once a Purchase has been created, then updated with a new list of   *)
(* line items, then deleted, with no other request in between, every       *)
(* party's balance that existed before the create, the stock of every item *)
(* and the stock of the universal item are what they were before the       *)
(* create (a supplier the create itself added is left with balance 0).     *)
C1_PurchaseRoundTrip ==
    (trip.stage = 3 /\ trip.kind = "purchase") =>
        /\ items = trip.pre.items
        /\ purchases = trip.pre.purchases
        /\ \A p \in DOMAIN parties :
              Balance(parties, p) =
                  IF p \in DOMAIN trip.pre.parties THEN Balance(trip.pre.parties, p) ELSE 0

C1_Witness ==
    /\ trip.stage = 3 /\ trip.kind = "purchase"
    /\ Cardinality(DOMAIN purchases) = 1
    /\ \E i \in OrdinaryItemIds : Stock(items, i) > 0
    /\ \E p \in DOMAIN parties : Balance(parties, p) > 0

(* C4: after a Payment has been set from completed to cancelled and then   *)
(* from cancelled back to completed, with nothing in between, its party's  *)
(* balance is what it was before the two status updates.                   *)
C4_ToggleNetZero ==
    (trip.stage = 2 /\ trip.kind = "toggle") =>
        \A p \in DOMAIN parties : Balance(parties, p) = Balance(trip.pre.parties, p)

(* C5: a payment number handed out is greater than every number handed out *)
(* before for its type, and it is 1 when no payment of the type exists.    *)
C5_NumbersIncrease ==
    last.op = "paymentCreate" =>
        LET n == ParseInt(last.args.paymentNo.digits)
        IN /\ \A m \in last.args.before : n > m
           /\ (\A i \in DOMAIN last.pre.payments :
                   last.pre.payments[i].type # last.args.type) => n = 1

(* C6: a successful delete of a completed Payment raises its party's       *)
(* balance by the payment's amount, whatever the payment's type, and       *)
(* removes the record; a delete of a pending or cancelled Payment changes  *)
(* no balance.  No other party's balance changes.                          *)
C6_PaymentDeleteReversal ==
    (last.op = "paymentDelete" /\ last.code = 200) =>
        LET old == last.pre.payments[last.args.id]
        IN /\ last.args.id \notin DOMAIN payments
           /\ DOMAIN parties = DOMAIN last.pre.parties
           /\ \A p \in DOMAIN parties :
                Balance(parties, p) = Balance(last.pre.parties, p)
                    + (IF p = old.partyId /\ old.status = "completed"
                       THEN old.amount ELSE 0)

C6_Witness ==
    /\ last.op = "paymentDelete" /\ last.code = 200
    /\ LET old == last.pre.payments[last.args.id]
       IN /\ old.status = "completed" /\ old.type = "payment-out"
          /\ Balance(parties, old.partyId) = Balance(last.pre.parties, old.partyId) + old.amount
          /\ Cardinality(DOMAIN parties) = 2

(* C8: a successful Purchase update changes the supplier's balance by      *)
(* exactly newTotal - oldTotal and no other balance; nothing changes when  *)
(* the totals are equal or the purchase names no party.                    *)
C8_PurchaseUpdateLedger ==
    (last.op = "purchaseUpdate" /\ last.code = 200) =>
        LET old == last.pre.purchases[last.args.id]
            new == purchases[last.args.id]
        IN /\ DOMAIN parties = DOMAIN last.pre.parties
           /\ \A p \in DOMAIN parties :
                Balance(parties, p) = Balance(last.pre.parties, p)
                    + (IF p = old.partyId /\ old.partyId # NoParty
                       THEN new.totalAmount - old.totalAmount ELSE 0)

C8_Witness ==
    /\ last.op = "purchaseUpdate" /\ last.code = 200
    /\ LET old == last.pre.purchases[last.args.id]
           new == purchases[last.args.id]
       IN /\ new.totalAmount < old.totalAmount
          /\ Balance(parties, old.partyId) # Balance(last.pre.parties, old.partyId)
          /\ Cardinality(DOMAIN parties) = 2

(* C9: a successful Purchase update that replaces the line items changes   *)
(* each item's stock by (new kilograms - old kilograms on that item) / 30  *)
(* bags, and the universal item's stock by (sum of the new quantities -    *)
(* sum of the old quantities) / 30 bags.                                   *)
C9_PurchaseUpdateStock ==
    (last.op = "purchaseUpdate" /\ last.code = 200 /\ last.args.given) =>
        LET old == last.pre.purchases[last.args.id].items
            new == last.args.lines
        IN /\ purchases[last.args.id].items = new
           /\ \A i \in OrdinaryItemIds :
                IsKg(Stock(items, i) - Stock(last.pre.items, i),
                     Kg(new, {i}) - Kg(old, {i}))
           /\ IsKg(Stock(items, BardanaId) - Stock(last.pre.items, BardanaId),
                   Kg(new, AllLineIds) - Kg(old, AllLineIds))

C9_Witness ==
    /\ last.op = "purchaseUpdate" /\ last.code = 200 /\ last.args.given
    /\ LET old == last.pre.purchases[last.args.id].items
           new == last.args.lines
       IN /\ Kg(new, {"I1"}) < Kg(old, {"I1"})
          /\ Kg(new, {"I2"}) > Kg(old, {"I2"})
          /\ Stock(items, "I1") < Stock(last.pre.items, "I1")
          /\ Stock(items, BardanaId) < Stock(last.pre.items, BardanaId)
          /\ Cardinality(DOMAIN purchases) = 2

(* C10: in every state the universal item's stock is its initial stock     *)
(* plus (the sum of the line quantities of all purchases on record) / 30.  *)
C10_BardanaMirrorsPurchases ==
    IsKg(Stock(items, BardanaId) - InitialStock, KgOnRecord(purchases))

C10_Witness ==
    /\ last.op = "purchaseDelete" /\ last.code = 200
    /\ Cardinality(DOMAIN purchases) = 1
    /\ \E i \in DOMAIN purchases : Len(purchases[i].items) = 2
    /\ Stock(items, BardanaId) > InitialStock
    /\ Stock(items, BardanaId) < Stock(last.pre.items, BardanaId)

\* C3: the openingStock of every item, the universal Bardana item included,
\* is never negative, whatever purchase creates, updates and deletes have
\* run, one after another or interleaved.
C3_StockNeverNegative ==
    \A i \in DOMAIN items : Stock(items, i) >= 0

\* Two requests that overlapped have both answered, the second a delete
\* whose restoration met a stock already taken back: the clamp acted.
C3_Witness ==
    /\ last.op = "delete" /\ last.code = 200 /\ ~last.alone /\ last.clamped
    /\ Active = {} /\ Cardinality(DOMAIN reqs) = MaxRequests
    /\ Stock(items, "I1") = 0

\* What a create has done when all its lines are on existing items
ExpectedLog(lines) ==
    <<"persist", "ledger">> \o [n \in 1..Len(lines) |-> lines[n].id] \o <<BardanaId>>

IsPrefix(s, t) == Len(s) <= Len(t) /\ \A n \in 1..Len(s) : s[n] = t[n]

\* C7: a create applies its effects in the order persist record, ledger,
\* per-line inventory, universal item; when it answers 201 having run with
\* no other request interleaved, each referenced item's stock has grown by
\* its lines' quantity / 30 bags, the universal item's by the sum of all
\* line quantities / 30 bags, and the supplier's balance by totalAmount.
C7_PurchaseCreateEffects ==
    /\ \A k \in Active : reqs[k].op = "create" =>
          IsPrefix(reqs[k].log, ExpectedLog(reqs[k].lines))
    /\ (last.op = "create" /\ last.code = 201) =>
          /\ last.log = ExpectedLog(last.args.lines)
          /\ last.alone =>
               /\ \A i \in OrdinaryItemIds :
                     IsKg(Stock(items, i) - Stock(last.pre.items, i),
                          Kg(last.args.lines, {i}))
               /\ IsKg(Stock(items, BardanaId) - Stock(last.pre.items, BardanaId),
                       SumQuantity(last.args.lines))
               /\ LET p == purchases[last.args.id].partyId
                  IN Balance(parties, p) =
                        (IF p \in DOMAIN last.pre.parties
                         THEN Balance(last.pre.parties, p) ELSE 0)
                        + TotalAmount(last.args.lines)

\* A create of two lines has answered 201 with no other request interleaved
C7_Witness ==
    /\ last.op = "create" /\ last.code = 201 /\ last.alone
    /\ Len(last.args.lines) = 2
    /\ Len(last.log) = 5

\* C11: of two find-or-create calls in a row with the same name and phone,
\* the second returns the party the first returned, the two together add at
\* most one party record, and the second leaves every party as it was.
C11_FindOrCreateIdempotent ==
    (trip.stage = 2 /\ trip.kind = "find") =>
        /\ trip.id = trip.first
        /\ Cardinality(DOMAIN parties) <= Cardinality(DOMAIN trip.before.parties) + 1
        /\ parties = trip.pre.parties

\* The second call was made with a phone that normalisation changes, on a
\* party whose balance a direct edit had set before the first call
C11_Witness ==
    /\ trip.stage = 2 /\ trip.kind = "find"
    /\ trip.phone = <<"1", " ", "1">>
    /\ Cardinality(DOMAIN parties) = 2
    /\ Balance(parties, trip.id) > 0

\* C12: a delete of a Purchase or of a Payment whose ledger reversal fails
\* (its party is gone) answers with a failure and leaves the record on file
\* as it was; a delete that answers 200 has removed the record.
C12_DeleteKeepsRecordOnFailure ==
    /\ last.op = "purchaseDelete" =>
          LET old == last.pre.purchases[last.args.id]
          IN /\ (old.partyId # NoParty /\ old.partyId \notin DOMAIN last.pre.parties) =>
                    /\ last.code = 500
                    /\ last.args.id \in DOMAIN purchases
                    /\ purchases[last.args.id] = old
             /\ last.code = 200 => last.args.id \notin DOMAIN purchases
    /\ last.op = "paymentDelete" =>
          LET old == last.pre.payments[last.args.id]
          IN /\ (old.partyId # NoParty /\ old.status = "completed"
                   /\ old.partyId \notin DOMAIN last.pre.parties) =>
                    /\ last.code = 500
                    /\ last.args.id \in DOMAIN payments
                    /\ payments[last.args.id] = old
             /\ last.code = 200 => last.args.id \notin DOMAIN payments

\* A purchase delete has failed on its ledger reversal while a payment of
\* the same deleted party is on file too
C12_Witness ==
    /\ last.op = "purchaseDelete" /\ last.code = 500
    /\ last.args.id \in DOMAIN purchases
    /\ \E i \in DOMAIN payments :
          /\ payments[i].partyId = purchases[last.args.id].partyId
          /\ payments[i].status = "completed"
    /\ purchases[last.args.id].partyId \notin DOMAIN parties

\* The stock of item i (or of the universal item, ids = all ids) that a
\* request leaves when nothing fails on it, from the stock before
ExpectedStock(op, stock, old, new, ids) ==
    CASE op = "create" -> stock + QuantityInBags(Kg(new, ids))
      [] op = "delete" -> Max(0, stock - QuantityInBags(Kg(old, ids)))
      [] op = "update" ->
            IF old = new THEN stock
            ELSE IF ids = AllLineIds
            THEN Max(0, stock + QuantityInBags(Kg(new, ids)) - QuantityInBags(Kg(old, ids)))
            ELSE Max(0, stock - QuantityInBags(Kg(old, ids))) + QuantityInBags(Kg(new, ids))

\* C13: when the stock adjustment of a line item fails, or its item id
\* resolves to nothing, a Purchase create, update or delete still answers
\* success, and every other item and the universal item are adjusted as if
\* nothing had failed; the item that failed keeps its stock.
C13_ItemFailureTolerated ==
    (last.op \in {"create", "update", "delete"} /\ last.alone
        /\ last.code # 404 /\ "ledger" \notin last.faults) =>
        /\ last.code = IF last.op = "create" THEN 201 ELSE 200
        /\ \A i \in OrdinaryItemIds :
              Stock(items, i) =
                 IF i \in last.faults THEN Stock(last.pre.items, i)
                 ELSE ExpectedStock(last.op, Stock(last.pre.items, i),
                                    last.doc.items, last.args.lines, {i})
        /\ Stock(items, BardanaId) =
              IF "bardana" \in last.faults THEN Stock(last.pre.items, BardanaId)
              ELSE ExpectedStock(last.op, Stock(last.pre.items, BardanaId),
                                 last.doc.items, last.args.lines, AllLineIds)

\* An update whose save of I2 threw has answered 200 and has adjusted I1
\* and the universal item
C13_Witness ==
    /\ last.op = "update" /\ last.code = 200 /\ last.faults = {"I2"}
    /\ last.args.lines = <<L("I2", 30), L("I1", 30)>>
    /\ Stock(items, "I2") = Stock(last.pre.items, "I2")
    /\ Stock(items, "I1") # Stock(last.pre.items, "I1")
    /\ Stock(items, BardanaId) # Stock(last.pre.items, BardanaId)

\* C14: when the ledger adjustment of a Purchase create or update fails, the
\* request answers 500 and no stock, of a line item or of the universal
\* item, has been adjusted.
C14_LedgerFailurePropagates ==
    (last.op \in {"create", "update"} /\ last.code # 404 /\ "ledger" \in last.faults
        /\ (last.op = "update" =>
               /\ last.doc.partyId # NoParty
               /\ last.doc.totalAmount # TotalAmount(last.args.lines))) =>
        /\ last.code = 500
        /\ items = last.pre.items

\* An update with new line items has answered 500 on its ledger adjustment;
\* the record carries the new items, the stock is as before
C14_Witness ==
    /\ last.op = "update" /\ last.code = 500 /\ "ledger" \in last.faults
    /\ purchases[last.args.id].items = last.args.lines
    /\ last.doc.items # last.args.lines
    /\ items = last.pre.items
    /\ Stock(items, "I1") > 0

\* C15: a Payment status update reconciles the ledger (the party's balance
\* moves by the payment's amount) exactly when it takes the payment from
\* completed to cancelled or from cancelled to completed; an update from or
\* to pending, or to the status the payment has, changes no balance.
C15_StatusReconcilesOnToggleOnly ==
    (last.op = "paymentStatus" /\ last.code = 200) =>
        LET old == last.pre.payments[last.args.id]
            toggles == \/ old.status = "completed" /\ last.args.status = "cancelled"
                       \/ old.status = "cancelled" /\ last.args.status = "completed"
        IN /\ payments[last.args.id].status = last.args.status
           /\ DOMAIN parties = DOMAIN last.pre.parties
           /\ \A p \in DOMAIN parties :
                 IF toggles /\ p = old.partyId
                 THEN Balance(parties, p) = Balance(last.pre.parties, p) - old.amount
                 ELSE Balance(parties, p) = Balance(last.pre.parties, p)

\* A completed payment has been set to pending and no balance has moved,
\* with a second party on file
C15_Witness ==
    /\ last.op = "paymentStatus" /\ last.code = 200
    /\ last.pre.payments[last.args.id].status = "completed"
    /\ last.args.status = "pending"
    /\ parties = last.pre.parties
    /\ Cardinality(DOMAIN parties) = 2

\* C16: a Purchase status update from completed to cancelled or from
\* cancelled to completed reconciles the ledger (the supplier's balance
\* moves); an update from or to pending changes no balance.
C16_PurchaseStatusReconciles ==
    (last.op = "purchaseStatus" /\ last.code = 200) =>
        LET old == last.pre.purchases[last.args.id]
            toggles == \/ old.status = "completed" /\ last.args.status = "cancelled"
                       \/ old.status = "cancelled" /\ last.args.status = "completed"
        IN IF toggles
           THEN Balance(parties, old.partyId) # Balance(last.pre.parties, old.partyId)
           ELSE parties = last.pre.parties

\* The values a finished request read from, and wrote to, item i
ReadsOf(r, i) == SelectSeq(r.seen, LAMBDA e : e[1] = i)
WritesOf(r, i) == SelectSeq(r.wrote, LAMBDA e : e[1] = i)

\* Two purchase creates or deletes that both succeeded, each having read item i
\* once and saved it once, both having read the same stock, and no other
\* request having saved the item
RacedOn(j, k, i) ==
    /\ j # k
    /\ Active = {}
    /\ \A n \in DOMAIN reqs \ {j, k} : WritesOf(reqs[n], i) = <<>>
    /\ \A n \in {j, k} :
         /\ reqs[n].op \in {"create", "delete"}
         /\ reqs[n].code \in {200, 201}
         /\ Len(ReadsOf(reqs[n], i)) = 1
         /\ Len(WritesOf(reqs[n], i)) = 1
    /\ ReadsOf(reqs[j], i)[1][2] = ReadsOf(reqs[k], i)[1][2]

\* C17: two concurrent purchase operations that read the same stock of an item
\* and each save their own adjustment of it both succeed, and the item is left
\* with the value one of them saved: the other adjustment is lost.
C17_LostUpdate ==
    \A j \in DOMAIN reqs : \A k \in DOMAIN reqs : \A i \in DOMAIN items :
        RacedOn(j, k, i) =>
            LET v == ReadsOf(reqs[j], i)[1][2]
                wj == WritesOf(reqs[j], i)[1][2]
                wk == WritesOf(reqs[k], i)[1][2]
            IN /\ Stock(items, i) \in {wj, wk}
               /\ (wj # v /\ wk # v) => Stock(items, i) # v + (wj - v) + (wk - v)

C17_Witness ==
    \E j \in DOMAIN reqs : \E k \in DOMAIN reqs : \E i \in DOMAIN items :
        /\ RacedOn(j, k, i)
        /\ ~ items[i].isUniversal
        /\ LET v == ReadsOf(reqs[j], i)[1][2]
               wj == WritesOf(reqs[j], i)[1][2]
               wk == WritesOf(reqs[k], i)[1][2]
           IN /\ wj # v
              /\ wk # v
              /\ Stock(items, i) = wk
              /\ Stock(items, i) # v + (wj - v) + (wk - v)

\* C18: two payment creations of the same type that each read the latest
\* number while the same payments of the type are on file are assigned the
\* same payment number (and the unique index lets only one of them be saved).
C18_SameNumberAssigned ==
    \A j \in DOMAIN reqs : \A k \in DOMAIN reqs :
        (/\ j # k
         /\ reqs[j].pc # "number" /\ reqs[k].pc # "number"
         /\ reqs[j].type = reqs[k].type
         /\ reqs[j].basis = reqs[k].basis)
        => /\ reqs[j].paymentNo = reqs[k].paymentNo
           /\ ~ (/\ reqs[j].pc = "done" /\ reqs[j].code = 201
                 /\ reqs[k].pc = "done" /\ reqs[k].code = 201)

C18_Witness ==
    \E j \in DOMAIN reqs : \E k \in DOMAIN reqs :
        /\ j # k
        /\ reqs[j].type = reqs[k].type
        /\ reqs[j].pc = "save" /\ reqs[k].pc = "save"
        /\ reqs[j].paymentNo = reqs[k].paymentNo
        /\ reqs[j].paymentNo = GenerateNextPaymentNumber(payments, reqs[j].type)

\* C19: after a server startup exactly one universal item named 'Bardana'
\* exists: a startup that finds none creates it with opening stock 0 and
\* touches no other item, and a startup that finds one leaves the Item
\* collection as it was (no second one, its stock unchanged).
C19_OneBardanaAfterStartup ==
    last.op = "startup" =>
        /\ Cardinality(FindBardana(items)) = 1
        /\ IF FindBardana(last.pre.items) = {}
           THEN /\ \A b \in FindBardana(items) : Stock(items, b) = 0
                /\ \A i \in DOMAIN last.pre.items :
                       i \in DOMAIN items /\ items[i] = last.pre.items[i]
           ELSE items = last.pre.items

C19_Witness ==
    /\ last.op = "startup"
    /\ \E b \in FindBardana(last.pre.items) :
          /\ Stock(last.pre.items, b) > 0
          /\ Stock(items, b) = Stock(last.pre.items, b)
    /\ Cardinality(FindBardana(items)) = 1

\* A body field that was not sent (or sent empty)
Missing(x) ==
    \/ x.t = "undefined"
    \/ x.t = "string" /\ x.v = ""
    \/ x.t = "chars" /\ x.v = <<>>

\* The purchase bodies that field validation is to reject
PurchaseBodyInvalid(body) ==
    \/ Missing(body.supplierName) \/ Missing(body.phoneNumber)
    \/ Missing(body.items) \/ Missing(body.date)
    \/ body.items.t # "array"
    \/ body.items.v = <<>>

\* The payment bodies that field validation is to reject
PaymentBodyInvalid(body) ==
    \/ Missing(body.partyName) \/ Missing(body.phoneNumber)
    \/ Missing(body.amount) \/ Missing(body.date)
    \/ body.amount.v <= 0

\* C20: a Purchase create without supplier name, phone, items or date, or whose
\* items are not a non-empty array, and a Payment create without party name,
\* phone, amount or date, or with amount <= 0, answers 400 and leaves the
\* parties, items, purchases and payments exactly as they were.
C20_RejectedCreateChangesNothing ==
    /\ (last.op = "purchaseCreateRequest" /\ PurchaseBodyInvalid(last.args.body))
          => (last.code = 400 /\ Snapshot = last.pre)
    /\ (last.op = "paymentCreateRequest" /\ PaymentBodyInvalid(last.args.body))
          => (last.code = 400 /\ Snapshot = last.pre)

C20_Witness ==
    /\ last.op = "purchaseCreateRequest"
    /\ last.args.body.items = Arr(<<>>)
    /\ ~ Missing(last.args.body.supplierName)
    /\ ~ Missing(last.args.body.phoneNumber)
    /\ ~ Missing(last.args.body.date)
    /\ last.code = 400
    /\ Snapshot = last.pre
    /\ DOMAIN purchases # {}
    /\ DOMAIN payments # {}

\* The type of the payment a create or delete request was about
TypeOf(l) ==
    IF l.op = "paymentCreate" THEN l.args.type ELSE l.pre.payments[l.args.id].type

\* C21: every payment on file carries the prefix of its type (PAY-IN for
\* payment-in, PAY-OUT for payment-out), and a successful create or delete of
\* a payment of one type leaves the next number of the other type unchanged.
C21_NumbersScopedPerType ==
    /\ \A i \in DOMAIN payments :
          payments[i].paymentNo.prefix =
              (IF payments[i].type = "payment-in" THEN "PAY-IN" ELSE "PAY-OUT")
    /\ (last.op \in {"paymentCreate", "paymentDelete"} /\ last.code \in {200, 201})
          => \A u \in PaymentTypes \ {TypeOf(last)} :
                GenerateNextPaymentNumber(payments, u)
                    = GenerateNextPaymentNumber(last.pre.payments, u)

C21_Witness ==
    /\ last.op = "paymentCreate"
    /\ last.code = 201
    /\ last.args.type = "payment-in"
    /\ \E i \in DOMAIN last.pre.payments : last.pre.payments[i].type = "payment-out"
    /\ payments # last.pre.payments
    /\ GenerateNextPaymentNumber(payments, "payment-in")
           # GenerateNextPaymentNumber(last.pre.payments, "payment-in")
    /\ GenerateNextPaymentNumber(payments, "payment-out")
           = GenerateNextPaymentNumber(last.pre.payments, "payment-out")

\* C22: every payment on file, none of which was ever given a totalAmount by
\* its caller, has totalAmount equal to amount.
C22_TotalAmountIsAmount ==
    \A i \in DOMAIN payments : payments[i].totalAmount = payments[i].amount

\* C23: a successful Payment update that changes the amount from a_old to
\* a_new changes the balance of the payment's party by a_old - a_new, for both
\* types and every status, and no other balance; an update that leaves the
\* amount as it was changes no balance, a change of status included.
C23_PaymentUpdateLedger ==
    (last.op = "paymentUpdate" /\ last.code = 200) =>
        LET old == last.pre.payments[last.args.id]
            new == payments[last.args.id]
        IN /\ DOMAIN parties = DOMAIN last.pre.parties
           /\ \A p \in DOMAIN parties :
                 Balance(parties, p) =
                     Balance(last.pre.parties, p)
                       + (IF p = old.partyId THEN old.amount - new.amount ELSE 0)

C23_Witness ==
    /\ last.op = "paymentUpdate"
    /\ last.code = 200
    /\ LET old == last.pre.payments[last.args.id]
           new == payments[last.args.id]
       IN /\ old.amount # new.amount
          /\ old.type = "payment-out"
          /\ old.status = "completed"
          /\ new.status = "cancelled"
          /\ Balance(parties, old.partyId)
                = Balance(last.pre.parties, old.partyId) + old.amount - new.amount

\* C24: a Purchase create that answers with a failure leaves no purchase
\* record of that request on file.
C24_FailedCreateLeavesNoRecord ==
    (last.op = "create" /\ last.code >= 400) => purchases = last.pre.purchases

\* C25: once a Payment has been created and then deleted, with no request in
\* between, every party's balance is what it was before the create (0 for a
\* party the create itself added), whatever the payment's status and type.
C25_PaymentCreateDeleteRoundTrip ==
    (trip.stage = 2 /\ trip.kind = "payment") =>
        \A p \in DOMAIN parties :
            Balance(parties, p) =
                (IF p \in DOMAIN trip.pre.parties
                 THEN Balance(trip.pre.parties, p) ELSE 0)

\* C26: when two deletes of the same Purchase, the only requests made, both
\* succeed, the supplier's balance is its starting balance less the
\* purchase's totalAmount, and the stock of each of its items and of the
\* universal item is the starting stock reduced once by the line quantity.
C26_ConcurrentDeleteReversesOnce ==
    \A j \in DOMAIN reqs : \A k \in DOMAIN reqs :
        (/\ j # k
         /\ DOMAIN reqs = {j, k}
         /\ \A n \in {j, k} :
               reqs[n].pc = "done" /\ reqs[n].op = "delete" /\ reqs[n].code = 200
         /\ reqs[j].id = reqs[k].id)
        => LET doc == ConcStart.purchases[reqs[j].id]
           IN /\ Balance(parties, doc.partyId)
                    = Balance(ConcStart.parties, doc.partyId) - doc.totalAmount
              /\ \A n \in DOMAIN doc.items :
                    Stock(items, doc.items[n].id) =
                        StockRestored(Stock(ConcStart.items, doc.items[n].id),
                                      doc.items[n].quantity)
              /\ Stock(items, BardanaId) =
                    StockRestored(Stock(ConcStart.items, BardanaId),
                                  SumQuantity(doc.items))

\* C27: when a Purchase delete has failed at the ledger step and the retry of
\* the same delete, the only other request, succeeds with no call failing, the
\* stock of each item of the purchase and of the universal item is the
\* starting stock reduced once by the purchase's quantities.
C27_RetriedDeleteStock ==
    (/\ DOMAIN reqs = {1, 2}
     /\ reqs[1].pc = "done" /\ reqs[1].op = "delete" /\ reqs[1].code = 500
     /\ reqs[2].pc = "done" /\ reqs[2].op = "delete" /\ reqs[2].code = 200
     /\ reqs[1].id = reqs[2].id
     /\ last.op = "delete" /\ last.faults = {})
    => LET doc == RetryStart.purchases[reqs[1].id]
       IN /\ \A n \in DOMAIN doc.items :
                Stock(items, doc.items[n].id) =
                    StockRestored(Stock(RetryStart.items, doc.items[n].id),
                                  doc.items[n].quantity)
          /\ Stock(items, BardanaId) =
                StockRestored(Stock(RetryStart.items, BardanaId),
                              SumQuantity(doc.items))

\* C28: no two parties on file have the same name and the same phone number.
C28_PartyPairsDistinct ==
    \A p \in DOMAIN parties : \A q \in DOMAIN parties :
        (parties[p].name = parties[q].name
         /\ parties[p].phoneNumber = parties[q].phoneNumber) => p = q

\* C29 as stated: a party delete removes the party record alone, and a
\* Purchase, or a completed Payment, that has been on file while its party was
\* deleted is never deleted: it is on file in every later state.
C29_OrphanNeverDeleted ==
    /\ (last.op = "partyDelete" /\ last.code = 200) =>
          (purchases = last.pre.purchases /\ payments = last.pre.payments)
    /\ trip.stage > 0 =>
          (/\ trip.purchases \subseteq DOMAIN purchases
           /\ trip.payments \subseteq DOMAIN payments)

\* C29 amended: a party delete removes the party record alone; a delete of a
\* Purchase, or of a Payment that is completed, whose party is deleted answers
\* 500 and leaves the record and the balances as they were (the purchase's
\* stock reversal has been made by then); a Purchase that has been on file
\* while its party was deleted stays on file in every later state; a Payment
\* of a deleted party is deleted only when its status is not completed.
C29_OrphanDeleteFails ==
    /\ (last.op = "partyDelete" /\ last.code = 200) =>
          /\ purchases = last.pre.purchases
          /\ payments = last.pre.payments
          /\ DOMAIN parties = DOMAIN last.pre.parties \ {last.args.id}
          /\ \A p \in DOMAIN parties : parties[p] = last.pre.parties[p]
    /\ (last.op = "purchaseDelete"
          /\ last.pre.purchases[last.args.id].partyId \notin DOMAIN last.pre.parties) =>
          (/\ last.code = 500
           /\ purchases = last.pre.purchases
           /\ parties = last.pre.parties)
    /\ (last.op = "paymentDelete"
          /\ last.pre.payments[last.args.id].partyId \notin DOMAIN last.pre.parties) =>
          IF last.pre.payments[last.args.id].status = "completed"
          THEN last.code = 500 /\ Snapshot = last.pre
          ELSE last.code = 200 /\ last.args.id \notin DOMAIN payments
    /\ trip.stage > 0 => trip.purchases \subseteq DOMAIN purchases

C29_Witness ==
    /\ last.op = "paymentDelete"
    /\ last.code = 500
    /\ last.pre.payments[last.args.id].status = "completed"
    /\ last.pre.payments[last.args.id].partyId \notin DOMAIN parties
    /\ last.args.id \in trip.payments
    /\ last.args.id \in DOMAIN payments
    /\ trip.purchases # {}

\* C30: payments on file have pairwise distinct payment numbers, also when
\* creations interleave; a creation whose save finds its number on file answers
\* 500, adds no payment (the payments on file are those of the creations whose
\* save succeeded) and changes no balance (a party's balance is minus the
\* amounts of the creations for it that answered 201).
C30_DistinctPaymentNumbers ==
    LET saved == {k \in DOMAIN reqs :
                     \/ reqs[k].pc = "ledger"
                     \/ (reqs[k].pc = "done" /\ reqs[k].code = 201)}
        lost == {k \in DOMAIN reqs : reqs[k].pc = "done" /\ reqs[k].code = 500}
    IN /\ \A i \in DOMAIN payments : \A j \in DOMAIN payments :
              payments[i].paymentNo = payments[j].paymentNo => i = j
       /\ Cardinality(DOMAIN payments) = Cardinality(saved)
       /\ \A k \in lost :
              Cardinality({i \in DOMAIN payments :
                              payments[i].paymentNo = reqs[k].paymentNo}) = 1
       /\ \A p \in DOMAIN parties :
              parties[p].balance =
                 0 - Cardinality({k \in DOMAIN reqs :
                                     /\ reqs[k].pc = "done"
                                     /\ reqs[k].code = 201
                                     /\ reqs[k].party = p})

C30_Witness ==
    \E j \in DOMAIN reqs : \E k \in DOMAIN reqs :
        /\ reqs[j].pc = "done" /\ reqs[j].code = 201
        /\ reqs[k].pc = "done" /\ reqs[k].code = 500
        /\ reqs[j].paymentNo = reqs[k].paymentNo
        /\ reqs[j].party = reqs[k].party
        /\ Cardinality(DOMAIN payments) = 1
        /\ parties[reqs[k].party].balance = 0 - 1

====
